---- MODULE Spec2Model ----
\* PersistentCache of rquote (src/rquote/cache/persistent.py) over a storage
\* backend (src/rquote/cache/storage.py): key parsing, date-window filtering,
\* merge-on-put, TTL expiry, delete and clear.
EXTENDS Integers, Sequences, FiniteSets, TLC

VARIABLES store, selfTtl, now, last

vars == <<store, selfTtl, now, last>>

\* ---------------------------------------------------------------- bounds
\* Calendar dates are the day numbers 1..MaxDate.
MaxDate == 3
\* Longest fragment (number of rows) a caller passes to put.
MaxLen == 2
\* The clock runs from 0 to MaxTime.
MaxTime == 2
\* Largest ttl (in clock ticks) given to the constructor or to put.
MaxTtl == 1

\* ------------------------------------------------------------ vocabulary
Symbols == {"A", "B"}
Freqs == {"day", "week"}
Fqs == {"qfq", "hfq"}
Names == {"", "n1", "n2"}
\* Row payloads (the candle values of a row).
Vals == {"p", "q"}
\* The days field of a full-form key.
DaysVals == {"320", "3"}

Dates == 1..MaxDate
\* The empty date string "".
EmptyDate == 0
\* An argument left at its default None.
NoneArg == -1
\* A date string as it appears in a key or as an argument: "" or a date.
DateStrs == {EmptyDate} \cup Dates
\* expire_at = None.
NoExpire == 0

BaseKeys == Symbols \X Freqs \X Fqs

Row(d, v) == <<d, v>>
RowDate(r) == r[1]
Rows == Dates \X Vals

\* A backend slot holding no record (get_raw returns None).
NoRec == [present |-> FALSE]

\* The result of a get that misses (None).
Miss == [hit |-> FALSE, symbol |-> "", name |-> "", df |-> <<>>]
Hit(symbol, name, df) == [hit |-> TRUE, symbol |-> symbol, name |-> name, df |-> df]

\* ------------------------------------------------------- series helpers
RECURSIVE SeqMin(_)
SeqMin(ds) ==
    IF Len(ds) = 1 THEN ds[1]
    ELSE LET m == SeqMin(Tail(ds)) IN IF ds[1] <= m THEN ds[1] ELSE m

RECURSIVE SeqMax(_)
SeqMax(ds) ==
    IF Len(ds) = 1 THEN ds[1]
    ELSE LET m == SeqMax(Tail(ds)) IN IF ds[1] >= m THEN ds[1] ELSE m

\* df.index as a sequence of dates.
Index(df) == [i \in 1..Len(df) |-> RowDate(df[i])]
\* df.index.min() / df.index.max() of a non-empty frame.
IndexMin(df) == SeqMin(Index(df))
IndexMax(df) == SeqMax(Index(df))

\* Mutant of DropDuplicatesKeepLast: duplicated(keep="first").
DropDuplicatesKeepFirst(df) ==
    LET keepIdx == {i \in 1..Len(df) :
                      \A j \in 1..(i-1) : RowDate(df[j]) # RowDate(df[i])}
        RECURSIVE Pick(_)
        Pick(i) == IF i > Len(df) THEN <<>>
                   ELSE IF i \in keepIdx THEN <<df[i]>> \o Pick(i + 1)
                        ELSE Pick(i + 1)
    IN Pick(1)

\* combined[~combined.index.duplicated(keep="last")]: a row stays unless a
\* later row carries the same date.
DropDuplicatesKeepLast(df) ==
    LET keepIdx == {i \in 1..Len(df) :
                      \A j \in (i+1)..Len(df) : RowDate(df[j]) # RowDate(df[i])}
        RECURSIVE Pick(_)
        Pick(i) == IF i > Len(df) THEN <<>>
                   ELSE IF i \in keepIdx THEN <<df[i]>> \o Pick(i + 1)
                        ELSE Pick(i + 1)
    IN Pick(1)

\* Insert a row into a frame sorted by date, after the rows of the same date.
RECURSIVE InsertByDate(_, _)
InsertByDate(r, df) ==
    IF df = <<>> THEN <<r>>
    ELSE IF RowDate(r) < RowDate(df[1]) THEN <<r>> \o df
         ELSE <<df[1]>> \o InsertByDate(r, Tail(df))

\* df.sort_index(): ascending by date.
RECURSIVE SortIndex(_)
SortIndex(df) ==
    IF df = <<>> THEN <<>>
    ELSE InsertByDate(df[Len(df)], SortIndex(SubSeq(df, 1, Len(df) - 1)))

\* ----------------------------------------------- PersistentCache helpers
\* Mutant of ExtractKeyParts: a full-form key's fq read from the days field.
ExtractKeyPartsDaysAsFq(parts) ==
    IF Len(parts) >= 6
    THEN <<parts[1], parts[2], parts[3], parts[4], parts[5]>>
    ELSE IF Len(parts) >= 4
         THEN <<parts[1], parts[2], parts[3], parts[4],
                IF Len(parts) > 4 THEN parts[5] ELSE "qfq">>
         ELSE <<IF Len(parts) > 0 THEN parts[1] ELSE "", EmptyDate, EmptyDate, "day", "qfq">>

\* _extract_key_parts: (symbol, sdate, edate, freq, fq) of a split key.
ExtractKeyParts(parts) ==
    IF Len(parts) >= 6
    THEN <<parts[1], parts[2], parts[3], parts[4], parts[6]>>
    ELSE IF Len(parts) >= 4
         THEN <<parts[1], parts[2], parts[3], parts[4],
                IF Len(parts) > 4 THEN parts[5] ELSE "qfq">>
         ELSE <<IF Len(parts) > 0 THEN parts[1] ELSE "", EmptyDate, EmptyDate, "day", "qfq">>

\* _get_base_key
GetBaseKey(symbol, freq, fq) == <<symbol, freq, fq>>

\* _parse_date: None (NoneArg) for an empty or absent string, else the date.
ParseDate(s) == IF s = EmptyDate \/ s = NoneArg THEN NoneArg ELSE s

\* _get_dataframe_date_range
GetDataframeDateRange(df) ==
    IF df = <<>> THEN <<NoneArg, NoneArg>> ELSE <<IndexMin(df), IndexMax(df)>>

\* Mutant of FilterDataframeByDate: the end bound exclusive.
FilterDataframeByDateExclusiveEnd(df, sdate, edate) ==
    LET start_date == ParseDate(sdate)
        end_date == ParseDate(edate)
        InBoth(r) == RowDate(r) >= start_date /\ RowDate(r) < end_date
        FromStart(r) == RowDate(r) >= start_date
        ToEnd(r) == RowDate(r) < end_date
    IN IF df = <<>> THEN df
       ELSE IF start_date # NoneArg /\ end_date # NoneArg THEN SelectSeq(df, InBoth)
       ELSE IF start_date # NoneArg THEN SelectSeq(df, FromStart)
       ELSE IF end_date # NoneArg THEN SelectSeq(df, ToEnd)
       ELSE df

\* _filter_dataframe_by_date: both bounds inclusive, each optional.
FilterDataframeByDate(df, sdate, edate) ==
    LET start_date == ParseDate(sdate)
        end_date == ParseDate(edate)
        InBoth(r) == RowDate(r) >= start_date /\ RowDate(r) <= end_date
        FromStart(r) == RowDate(r) >= start_date
        ToEnd(r) == RowDate(r) <= end_date
    IN IF df = <<>> THEN df
       ELSE IF start_date # NoneArg /\ end_date # NoneArg THEN SelectSeq(df, InBoth)
       ELSE IF start_date # NoneArg THEN SelectSeq(df, FromStart)
       ELSE IF end_date # NoneArg THEN SelectSeq(df, ToEnd)
       ELSE df

\* _merge_dataframes: concat, drop duplicated dates keeping the last, sort.
MergeDataframes(df1, df2) ==
    IF df1 = <<>> THEN df2
    ELSE IF df2 = <<>> THEN df1
    ELSE SortIndex(DropDuplicatesKeepLast(df1 \o df2))

\* ------------------------------------------------------ storage backend
\* get_raw: the record under base_key, or NoRec.
BackendGetRaw(st, base_key) ==
    IF base_key \in DOMAIN st THEN st[base_key] ELSE NoRec

\* put: unconditional overwrite of the record under base_key.
BackendPut(st, base_key, symbol, name, df, earliest, latest, freq, fq, expire_at) ==
    [st EXCEPT ![base_key] =
        [present |-> TRUE, symbol |-> symbol, name |-> name, df |-> df,
         earliest_date |-> earliest, latest_date |-> latest,
         freq |-> freq, fq |-> fq, expire_at |-> expire_at]]

\* delete: remove the record under base_key, if any.
BackendDelete(st, base_key) ==
    IF base_key \in DOMAIN st THEN [st EXCEPT ![base_key] = NoRec] ELSE st

\* clear: remove every record.
BackendClear(st) == [k \in DOMAIN st |-> NoRec]

\* ------------------------------------------------ PersistentCache methods
\* delete(key): the store after the call.
DeleteStore(st, key) ==
    LET p == ExtractKeyParts(key)
    IN BackendDelete(st, GetBaseKey(p[1], p[4], p[5]))

\* The TTL test of _get_via_backend.
Expired(rec, ttl0, t) == ttl0 # 0 /\ rec.expire_at # NoExpire /\ t > rec.expire_at

\* Mutant of GetViaBackend: the overlap test and the empty-result test left out.
GetViaBackendKeepEmpty(st, base_key, symbol, sdate, edate, freq, fq, ttl0, t) ==
    LET raw == BackendGetRaw(st, base_key)
    IN IF ~raw.present THEN [res |-> Miss, st |-> st]
       ELSE IF Expired(raw, ttl0, t)
            THEN [res |-> Miss, st |-> DeleteStore(st, base_key)]
       ELSE IF raw.df = <<>> THEN [res |-> Miss, st |-> st]
       ELSE [res |-> Hit(raw.symbol, raw.name,
                         FilterDataframeByDate(raw.df, sdate, edate)), st |-> st]

\* _get_via_backend: the result and the store after the call.
GetViaBackend(st, base_key, symbol, sdate, edate, freq, fq, ttl0, t) ==
    LET raw == BackendGetRaw(st, base_key)
    IN IF ~raw.present THEN [res |-> Miss, st |-> st]
       ELSE IF Expired(raw, ttl0, t)
            THEN [res |-> Miss, st |-> DeleteStore(st, base_key)]
       ELSE IF raw.df = <<>> THEN [res |-> Miss, st |-> st]
       ELSE LET cached_earliest == IndexMin(raw.df)
                cached_latest == IndexMax(raw.df)
                request_sdate == ParseDate(sdate)
                request_edate == ParseDate(edate)
                has_overlap ==
                    /\ ~(request_edate # NoneArg /\ request_edate < cached_earliest)
                    /\ ~(request_sdate # NoneArg /\ request_sdate > cached_latest)
                filtered_df == FilterDataframeByDate(raw.df, sdate, edate)
            IN IF ~has_overlap THEN [res |-> Miss, st |-> st]
               ELSE IF filtered_df = <<>> THEN [res |-> Miss, st |-> st]
               ELSE [res |-> Hit(raw.symbol, raw.name, filtered_df), st |-> st]

\* get(key, sdate, edate): the result and the store after the call.
GetCall(st, key, sdate, edate, ttl0, t) ==
    IF Len(key) = 3
    THEN GetViaBackend(st, key, key[1],
                       IF sdate = NoneArg THEN EmptyDate ELSE sdate,
                       IF edate = NoneArg THEN EmptyDate ELSE edate,
                       key[2], key[3], ttl0, t)
    ELSE LET p == ExtractKeyParts(key)
         IN GetViaBackend(st, GetBaseKey(p[1], p[4], p[5]), p[1],
                          IF sdate # NoneArg THEN sdate ELSE p[2],
                          IF edate # NoneArg THEN edate ELSE p[3],
                          p[4], p[5], ttl0, t)

\* The base key put(key, value) writes to.
PutBaseKey(key, value) ==
    IF Len(key) = 3 THEN key
    ELSE LET p == ExtractKeyParts(key) IN GetBaseKey(value.symbol, p[4], p[5])

\* put(key, value, ttl): the store after the call.
PutStore(st, key, value, ttl, ttl0, t) ==
    IF value.df = <<>> THEN st
    ELSE LET p == ExtractKeyParts(key)
             base_key == PutBaseKey(key, value)
             freq == IF Len(key) = 3 THEN key[2] ELSE p[4]
             fq == IF Len(key) = 3 THEN key[3] ELSE p[5]
             existing == BackendGetRaw(st, base_key)
             name == IF existing.present /\ value.name = ""
                     THEN existing.name ELSE value.name
             df == IF existing.present
                   THEN MergeDataframes(existing.df, value.df) ELSE value.df
             range == GetDataframeDateRange(df)
             expire_at == IF ttl # 0 \/ ttl0 # 0
                          THEN t + (IF ttl # 0 THEN ttl ELSE ttl0)
                          ELSE NoExpire
         IN BackendPut(st, base_key, value.symbol, name, df,
                       range[1], range[2], freq, fq, expire_at)


\* --------------------------------------------------------------- inputs
\* A value tuple (symbol, name, df) handed to put.
Value(symbol, name, df) == [symbol |-> symbol, name |-> name, df |-> df]
NoValue == Value("", "", <<>>)
NoKey == <<>>

\* Base-form key symbol:freq:fq.
BaseKeyForm(symbol, freq, fq) == <<symbol, freq, fq>>
\* Full-form key symbol:sdate:edate:freq:days:fq.
FullKeyForm(symbol, sdate, edate, freq, days, fq) == <<symbol, sdate, edate, freq, days, fq>>

\* Date sequences of length 1..MaxLen, in any order, repeats allowed.
DateSeqs == UNION {[1..n -> Dates] : n \in 1..MaxLen}
\* The fragment with the given dates, every row carrying payload v.
Frag(ds, v) == [i \in 1..Len(ds) |-> Row(ds[i], v)]
Frags == {Frag(ds, v) : ds \in DateSeqs, v \in Vals}

EmptyStore == [k \in BaseKeys |-> NoRec]

\* What the last call was: its arguments, its result, the clock at the call
\* and the backend as it was before the call.
Call(op, key, sdate, edate, value, ttl, res, pre, at) ==
    [op |-> op, key |-> key, sdate |-> sdate, edate |-> edate, value |-> value,
     ttl |-> ttl, res |-> res, pre |-> pre, at |-> at]

\* -------------------------------------------------------------- actions
PutAct(key, value, ttl) ==
    /\ store' = PutStore(store, key, value, ttl, selfTtl, now)
    /\ last' = Call("put", key, NoneArg, NoneArg, value, ttl, Miss, store, now)
    /\ UNCHANGED <<selfTtl, now>>

GetAct(key, sdate, edate) ==
    LET r == GetCall(store, key, sdate, edate, selfTtl, now)
    IN /\ store' = r.st
       /\ last' = Call("get", key, sdate, edate, NoValue, 0, r.res, store, now)
       /\ UNCHANGED <<selfTtl, now>>

DeleteAct(key) ==
    /\ store' = DeleteStore(store, key)
    /\ last' = Call("delete", key, NoneArg, NoneArg, NoValue, 0, Miss, store, now)
    /\ UNCHANGED <<selfTtl, now>>

ClearAct ==
    /\ store' = BackendClear(store)
    /\ last' = Call("clear", NoKey, NoneArg, NoneArg, NoValue, 0, Miss, store, now)
    /\ UNCHANGED <<selfTtl, now>>

\* Time passes.
Tick ==
    /\ now < MaxTime
    /\ now' = now + 1
    /\ last' = Call("tick", NoKey, NoneArg, NoneArg, NoValue, 0, Miss, store, now)
    /\ UNCHANGED <<store, selfTtl>>

InitCall == Call("init", NoKey, NoneArg, NoneArg, NoValue, 0, Miss, EmptyStore, 0)

\* ------------------------------------- specification: cache life cycle
\* Several base keys, per-call and default ttl, a clock; one-row fragments.
LifeTriples == {<<"A", "day", "qfq">>, <<"A", "week", "hfq">>}
LifeKeys ==
    {BaseKeyForm(t[1], t[2], t[3]) : t \in LifeTriples}
    \cup {FullKeyForm(t[1], EmptyDate, EmptyDate, t[2], "320", t[3]) : t \in LifeTriples}
LifeFrags == {<<>>, <<Row(2, "p")>>}
LifeWindows == {<<EmptyDate, EmptyDate>>, <<1, 1>>, <<2, EmptyDate>>, <<EmptyDate, 2>>}
\* get by base-form key with the window as arguments (or none), and by
\* full-form key with the window in the key.
LifeGets ==
    {<<BaseKeyForm(t[1], t[2], t[3]), w[1], w[2]>> : t \in LifeTriples, w \in LifeWindows}
    \cup {<<BaseKeyForm(t[1], t[2], t[3]), NoneArg, NoneArg>> : t \in LifeTriples}
    \cup {<<FullKeyForm(t[1], w[1], w[2], t[2], "320", t[3]), NoneArg, NoneArg>> :
            t \in LifeTriples, w \in LifeWindows}
Ttls == 0..MaxTtl

Init ==
    /\ store = EmptyStore
    /\ selfTtl \in Ttls
    /\ now = 0
    /\ last = InitCall

Next ==
    \/ \E k \in LifeKeys, f \in LifeFrags, t \in Ttls : PutAct(k, Value(k[1], "n1", f), t)
    \/ \E g \in LifeGets : GetAct(g[1], g[2], g[3])
    \/ \E k \in LifeKeys : DeleteAct(k)
    \/ ClearAct
    \/ Tick

Spec == Init /\ [][Next]_vars

\* --------------------------------- specification: one series, any fragment
\* One base key, no ttl, any sequence of calls; put takes every fragment of
\* one payload, get every window.
SeriesKeys ==
    {BaseKeyForm("A", "day", "qfq"),
     FullKeyForm("A", EmptyDate, EmptyDate, "day", "320", "qfq")}
SeriesFrags == {<<>>} \cup {Frag(ds, "p") : ds \in DateSeqs}
SeriesGets ==
    {<<BaseKeyForm("A", "day", "qfq"), s, e>> : s \in DateStrs, e \in DateStrs}
    \cup {<<BaseKeyForm("A", "day", "qfq"), NoneArg, NoneArg>>}
    \cup {<<FullKeyForm("A", s, e, "day", "320", "qfq"), NoneArg, NoneArg>> :
            s \in DateStrs, e \in DateStrs}

InitSeries ==
    /\ store = EmptyStore
    /\ selfTtl = 0
    /\ now = 0
    /\ last = InitCall

NextSeries ==
    \/ \E k \in SeriesKeys, f \in SeriesFrags : PutAct(k, Value("A", "n1", f), 0)
    \/ \E g \in SeriesGets : GetAct(g[1], g[2], g[3])
    \/ \E k \in SeriesKeys : DeleteAct(k)
    \/ ClearAct

SpecSeries == InitSeries /\ [][NextSeries]_vars

\* ------------------------------ specification: two puts onto one base key
\* From an empty cache: put(k1, v1), then put(k2, v2), for every pair of
\* fragments and both key forms.
MergeKeys == SeriesKeys
MergeFrags == {<<>>} \cup Frags

InitMerge ==
    /\ store = EmptyStore
    /\ selfTtl = 0
    /\ now = 0
    /\ last = InitCall

FirstPut ==
    /\ last.op = "init"
    /\ \E k \in MergeKeys, f \in MergeFrags : PutAct(k, Value("A", "n1", f), 0)

SecondPut ==
    /\ last.op = "put"
    /\ last.pre = EmptyStore
    /\ last.value.df # <<>>
    /\ \E k \in MergeKeys, f \in MergeFrags : PutAct(k, Value("A", "n1", f), 0)

NextMerge == FirstPut \/ SecondPut

SpecMerge == InitMerge /\ [][NextMerge]_vars

\* ------------------------------------ specification: put, then get back
\* From an empty cache: one put under any key form, symbol, name and
\* fragment, then get with the same key.
TripKeys ==
    {BaseKeyForm(s, "day", "qfq") : s \in Symbols}
    \cup {FullKeyForm(s, sd, ed, "day", days, "qfq") :
            s \in Symbols, sd \in DateStrs, ed \in DateStrs, days \in DaysVals}
TripFrags == {<<>>} \cup {Frag(ds, "p") : ds \in DateSeqs}

InitTrip ==
    /\ store = EmptyStore
    /\ selfTtl = 0
    /\ now = 0
    /\ last = InitCall

TripPut ==
    /\ last.op = "init"
    /\ \E k \in TripKeys, s \in Symbols, n \in Names, f \in TripFrags :
          PutAct(k, Value(s, n, f), 0)

TripGet ==
    /\ last.op = "put"
    /\ GetAct(last.key, NoneArg, NoneArg)

NextTrip == TripPut \/ TripGet

SpecTrip == InitTrip /\ [][NextTrip]_vars

\* =============================================================== claims
\* The dates of a frame, as a set.
DatesOf(df) == {RowDate(df[i]) : i \in 1..Len(df)}
\* The rows of a frame dated d, in their order.
RowsAt(df, d) == LET At(r) == RowDate(r) = d IN SelectSeq(df, At)
\* The last row of a frame dated d (d is one of its dates).
LastRowAt(df, d) == LET rs == RowsAt(df, d) IN rs[Len(rs)]
\* Date d lies in the window [s, e]; an empty bound does not restrict.
Covered(d, s, e) == (s = EmptyDate \/ s <= d) /\ (e = EmptyDate \/ d <= e)
\* The base key symbol:freq:fq of a key in base form or in full form
\* symbol:sdate:edate:freq:days:fq.
ReadBaseKey(key) == IF Len(key) = 3 THEN key ELSE <<key[1], key[4], key[6]>>
\* The window of a get: the arguments when supplied, else the key's fields.
WinS(key, sdate) ==
    IF sdate # NoneArg THEN sdate ELSE IF Len(key) = 6 THEN key[2] ELSE EmptyDate
WinE(key, edate) ==
    IF edate # NoneArg THEN edate ELSE IF Len(key) = 6 THEN key[3] ELSE EmptyDate
\* A frame is strictly increasing by date.
StrictlyIncreasing(df) == \A i \in 1..(Len(df) - 1) : RowDate(df[i]) < RowDate(df[i + 1])

\* C1 (SpecMerge): after put(k1, v1); put(k2, v2) of two non-empty fragments
\* under keys with the same base key, every get whose window covers a date of
\* v2 returns v2's row for it, and every date of v1 alone is returned with
\* v1's row.
C1_LaterWriteWins ==
    [][(/\ last.op = "put" /\ last'.op = "put"
        /\ last.value.df # <<>> /\ last'.value.df # <<>>
        /\ PutBaseKey(last.key, last.value) = PutBaseKey(last'.key, last'.value))
       => \A g \in SeriesGets :
            LET r == GetCall(store', g[1], g[2], g[3], selfTtl', now').res
                s == WinS(g[1], g[2])
                e == WinE(g[1], g[3])
                v1 == last.value.df
                v2 == last'.value.df
            IN \A d \in DatesOf(v1) \cup DatesOf(v2) :
                 Covered(d, s, e) =>
                    /\ r.hit
                    /\ RowsAt(r.df, d) =
                         <<IF d \in DatesOf(v2) THEN LastRowAt(v2, d) ELSE LastRowAt(v1, d)>>
      ]_vars

\* C1 witness: a second put has overwritten a date of the first with another
\* payload, and each fragment has a date the other lacks.
C1_Witness ==
    /\ last.op = "put"
    /\ last.pre[PutBaseKey(last.key, last.value)].present
    /\ LET old == last.pre[PutBaseKey(last.key, last.value)].df
           new == last.value.df
           now_df == store[PutBaseKey(last.key, last.value)].df
       IN /\ \E d \in DatesOf(old) \cap DatesOf(new) :
                /\ LastRowAt(old, d) # LastRowAt(new, d)
                /\ RowsAt(now_df, d) = <<LastRowAt(new, d)>>
          /\ DatesOf(old) \ DatesOf(new) # {}
          /\ DatesOf(new) \ DatesOf(old) # {}
          /\ DatesOf(now_df) = DatesOf(old) \cup DatesOf(new)

\* C2 (SpecSeries): every series held by the backend is strictly increasing
\* by date (unique dates, sorted), whatever fragment was put.
C2_StoredSeriesStrictlyIncreasing ==
    \A k \in BaseKeys : store[k].present => StrictlyIncreasing(store[k].df)

\* C3 (SpecMerge): put(k, v); put(k, v) with a non-empty v (one row per date)
\* leaves the stored series as the first put left it, and get(k) returns
\* exactly v's rows.
C3_PutIdempotent ==
    [][(/\ last.op = "put" /\ last'.op = "put"
        /\ last'.key = last.key /\ last'.value = last.value
        /\ last.value.df # <<>>
        /\ \A d \in DatesOf(last.value.df) : Len(RowsAt(last.value.df, d)) = 1)
       => /\ store'[PutBaseKey(last.key, last.value)].df
               = store[PutBaseKey(last.key, last.value)].df
          /\ GetCall(store', last.key, NoneArg, NoneArg, selfTtl', now').res.df
               = last.value.df
      ]_vars

\* C4 (SpecTrip): on an empty cache, put(key, value) of a non-empty series
\* lying inside the key's window, followed by get(key), is a hit carrying the
\* value's symbol, name and series.
C4_RoundTrip ==
    [][(/\ last.op = "put" /\ last'.op = "get" /\ last'.key = last.key
        /\ last'.sdate = NoneArg /\ last'.edate = NoneArg
        /\ last.pre = EmptyStore
        /\ last.value.df # <<>>
        /\ \A d \in DatesOf(last.value.df) :
              Covered(d, WinS(last.key, NoneArg), WinE(last.key, NoneArg)))
       => last'.res = Hit(last.value.symbol, last.value.name, last.value.df)
      ]_vars

\* C5 (SpecSeries): a get whose window [sdate, edate] lies within
\* [cachedEarliest, cachedLatest] returns exactly the stored rows dated in
\* [sdate, edate], both bounds inclusive (a miss when there is none), and
\* leaves the backend as it was.
C5_WindowWithinCache ==
    (/\ last.op = "get"
     /\ last.pre[ReadBaseKey(last.key)].present
     /\ last.pre[ReadBaseKey(last.key)].df # <<>>)
    => LET df == last.pre[ReadBaseKey(last.key)].df
           s == WinS(last.key, last.sdate)
           e == WinE(last.key, last.edate)
           In(r) == s <= RowDate(r) /\ RowDate(r) <= e
       IN (/\ s # EmptyDate /\ e # EmptyDate
           /\ IndexMin(df) <= s /\ e <= IndexMax(df))
          => /\ last.res.df = SelectSeq(df, In)
             /\ last.res.hit <=> (SelectSeq(df, In) # <<>>)
             /\ store = last.pre

\* C5 witness: such a get has returned some but not all of the stored rows.
C5_Witness ==
    /\ last.op = "get"
    /\ last.pre[ReadBaseKey(last.key)].present
    /\ LET df == last.pre[ReadBaseKey(last.key)].df
           s == WinS(last.key, last.sdate)
           e == WinE(last.key, last.edate)
       IN /\ s # EmptyDate /\ e # EmptyDate
          /\ IndexMin(df) <= s /\ e <= IndexMax(df)
          /\ last.res.hit
          /\ Len(last.res.df) < Len(df)
          /\ e \in DatesOf(last.res.df)

\* C6 (SpecSeries): a get whose edate is given and earlier than the cached
\* earliest date, or whose sdate is given and later than the cached latest
\* date, misses; and no hit carries zero rows.
C6_NoOverlapMisses ==
    /\ (last.op = "get" /\ last.res.hit) => last.res.df # <<>>
    /\ (/\ last.op = "get"
        /\ last.pre[ReadBaseKey(last.key)].present
        /\ last.pre[ReadBaseKey(last.key)].df # <<>>)
       => LET df == last.pre[ReadBaseKey(last.key)].df
              s == WinS(last.key, last.sdate)
              e == WinE(last.key, last.edate)
          IN ((e # EmptyDate /\ e < IndexMin(df)) \/ (s # EmptyDate /\ s > IndexMax(df)))
             => last.res = Miss

\* C6 witness: a get with edate before the cached earliest date has missed on
\* a cached series.
C6_Witness ==
    /\ last.op = "get"
    /\ last.pre[ReadBaseKey(last.key)].present
    /\ WinE(last.key, last.edate) # EmptyDate
    /\ WinE(last.key, last.edate) < IndexMin(last.pre[ReadBaseKey(last.key)].df)
    /\ last.res = Miss

\* C7 (Spec): in every cache state, get of the full-form key
\* symbol:sdate:edate:freq:days:fq and get of the base-form key symbol:freq:fq
\* with (sdate, edate) as arguments give the same result and leave the same
\* backend, whatever the days field.
C7_KeyFormsEquivalent ==
    \A sym \in Symbols, f \in Freqs, q \in Fqs, s \in DateStrs, e \in DateStrs,
       days \in DaysVals :
        GetCall(store, FullKeyForm(sym, s, e, f, days, q), NoneArg, NoneArg, selfTtl, now)
          = GetCall(store, BaseKeyForm(sym, f, q), s, e, selfTtl, now)

\* C7 witness: a get by full-form key with a window in the key has hit.
C7_Witness ==
    /\ last.op = "get"
    /\ Len(last.key) = 6
    /\ last.key[2] # EmptyDate
    /\ last.res.hit

\* C8 (Spec): a get issued after the expire_at of the record it reads never
\* returns that record, whether or not the cache has a default ttl.
C8_ExpiredNeverReturned ==
    (last.op = "get" /\ last.res.hit)
    => LET rec == last.pre[ReadBaseKey(last.key)]
       IN rec.expire_at = NoExpire \/ last.at <= rec.expire_at

\* C9 (Spec): when get finds the record under base key b expired, afterwards
\* the backend holds no record under b and every other record is unchanged.
C9_ExpiryDeletesOnlyThatRecord ==
    (/\ last.op = "get"
     /\ last.pre[ReadBaseKey(last.key)].present
     /\ Expired(last.pre[ReadBaseKey(last.key)], selfTtl, last.at))
    => store = [last.pre EXCEPT ![ReadBaseKey(last.key)] = NoRec]

\* C10 (Spec): delete(key) removes exactly the record get(key) reads, leaves
\* every other record unchanged, and get(key) then misses.
C10_DeleteRemovesThatRecord ==
    (last.op = "delete")
    => /\ store = [last.pre EXCEPT ![ReadBaseKey(last.key)] = NoRec]
       /\ GetCall(store, last.key, NoneArg, NoneArg, selfTtl, now).res = Miss

\* ================================================================
\* Price queries: the extension orchestrators in front of the cache.
\*   "auto"   PersistentCache.get_price_auto_merge (persistent.py)
\*   "market" Market._get_price_with_persistent_cache (markets/base.py),
\*            what Market.get_price runs for freq = day
\*   "plain"  the trivial cache wrapper of HKStockMarket.get_price and of
\*            Market.get_price for the other frequencies
\* A query is a sequence of steps, one per vendor fetch: a step takes the
\* vendor's reply to the pending fetch and runs the code up to the next
\* fetch or to the return.  The query's position, locals and fetch log are
\* kept in last.

\* ---------------------------------------------------------------- bounds
\* min_rows_before_edate (60 in the source), scaled to the calendar.
MinRowsBeforeEdate == 1
\* max_extend_iterations (15 in the source), scaled to the calendar.
MaxExtendIterations == 2
\* The 120 days _get_price_with_persistent_cache steps back by, scaled.
ExtendStepDays == 1

\* max_iterations of _get_price_with_persistent_cache (5 in the source, no
\* more than the default max_extend_iterations).
MarketMaxIterations == MaxExtendIterations
\* The 60 rows hard-coded in _get_price_with_persistent_cache.
MarketMinRows == MinRowsBeforeEdate

\* ------------------------------------------------------------ vocabulary
\* The one instrument queried: symbol, freq, days, fq of every query.
QSymbol == "A"
QName == "n1"
QFreq == "day"
QDays == "320"
QFq == "qfq"
QBaseKey == GetBaseKey(QSymbol, QFreq, QFq)
\* cache_key of Market.get_price
QCacheKey(sdate, edate) == FullKeyForm(QSymbol, sdate, edate, QFreq, QDays, QFq)

\* A date argument of a fetch: "" or a date (which may lie off the calendar).
NoDate == [given |-> FALSE, d |-> 0]
GivenDate(d) == [given |-> TRUE, d |-> d]
ArgOf(s) == IF s = EmptyDate THEN NoDate ELSE GivenDate(s)

\* One call of fetch_func, as logged: its kind, its six arguments, and (once
\* the vendor has replied) whether the reply was empty, whether it was put,
\* and whether the reloaded series reached further (a later latest date
\* after a forward fetch, an earlier earliest date after a backward one).
Fetch(kind, s, e) ==
    [kind |-> kind, symbol |-> QSymbol, sdate |-> s, edate |-> e,
     freq |-> QFreq, days |-> QDays, fq |-> QFq,
     replied |-> FALSE, empty |-> FALSE, put |-> FALSE, moved |-> FALSE]

\* The rows of df dated <= edate.
DataBefore(df, edate) == LET Upto(r) == RowDate(r) <= edate IN SelectSeq(df, Upto)

\* Whether every row of df lies in the window of the fetch f.
InFetchWindow(df, f) ==
    \A i \in 1..Len(df) :
        /\ f.sdate.given => f.sdate.d <= RowDate(df[i])
        /\ f.edate.given => RowDate(df[i]) <= f.edate.d

\* The three need_extend_* flags of _get_price_with_persistent_cache.
Mode(forward, backward, length) ==
    [forward |-> forward, backward |-> backward, length |-> length]

\* A query in progress: who runs it, its window, its position (pc), the loop
\* counter, the local series (full_df / current_merged_df), the locals of
\* the market routine, the fetch log, the result, the backend before the
\* query, whether every vendor reply so far lay in its fetch's window, and
\* what the previous query was.
Query(orch, sdate, edate, pre, prev) ==
    [op |-> "query", orch |-> orch, sdate |-> sdate, edate |-> edate,
     pc |-> "start", iter |-> 0, df |-> <<>>, name |-> "",
     mode |-> Mode(FALSE, FALSE, FALSE), ext_s |-> NoDate, ext_e |-> NoDate,
     log |-> <<>>, res |-> NoValue, pre |-> pre, honest |-> TRUE, prev |-> prev]

\* The step result: the query record and the store.
Step(q, st) == [q |-> q, st |-> st]

\* Issue the next fetch and wait for the vendor.
Issue(q, st, kind, pc, iter, s, e) ==
    Step([q EXCEPT !.pc = pc, !.iter = iter, !.log = Append(@, Fetch(kind, s, e))], st)

\* Return res to the caller.
Return(q, st, res) == Step([q EXCEPT !.pc = "done", !.res = res], st)

\* The vendor's reply to the pending fetch enters the log.
Replied(q, fetched, put) ==
    LET n == Len(q.log)
    IN [q EXCEPT !.log[n].replied = TRUE,
                 !.log[n].empty = (fetched.df = <<>>),
                 !.log[n].put = put /\ fetched.df # <<>>,
                 !.honest = @ /\ InFetchWindow(fetched.df, q.log[n])]

\* --------------------------------- PersistentCache.get_price_auto_merge
\* _get_full_cached
GetFullCached(st) == GetCall(st, QBaseKey, EmptyDate, EmptyDate, selfTtl, now)

\* Finalization: get(base_key, sdate, edate); on a miss, the fallback fetch.
AutoFinalize(q, st) ==
    LET final_hit == GetCall(st, QBaseKey, q.sdate, q.edate, selfTtl, now)
    IN IF final_hit.res.hit
       THEN Return(q, final_hit.st,
                   Value(final_hit.res.symbol, final_hit.res.name, final_hit.res.df))
       ELSE Issue(q, final_hit.st, "direct", "fallback", 0, ArgOf(q.sdate), ArgOf(q.edate))

\* Mutant of NeedBackward: the row count before edate is not looked at.
NeedBackwardOnlyEarly(full_df, request_edate) ==
    request_edate < IndexMin(full_df)

\* need_backward of the backward section.
NeedBackward(full_df, request_edate) ==
    \/ request_edate < IndexMin(full_df)
    \/ Len(DataBefore(full_df, request_edate)) <= MinRowsBeforeEdate

\* The arguments of a backward-extension fetch.
BackwardFetchArgs(full_df) == <<NoDate, GivenDate(IndexMin(full_df) - 1)>>

\* The arguments of a forward-extension fetch.
ForwardFetchArgs(full_df) == <<GivenDate(IndexMax(full_df) + 1), GivenDate(now)>>

\* Section 2: the backward loop is entered (q.df is full_df), or skipped.
AutoBackward(q, st) ==
    IF /\ ParseDate(q.edate) # NoneArg
       /\ NeedBackward(q.df, q.edate)
       /\ MaxExtendIterations > 0
    THEN Issue(q, st, "backward", "bwd", 1,
               BackwardFetchArgs(q.df)[1], BackwardFetchArgs(q.df)[2])
    ELSE AutoFinalize(q, st)

\* Section 1: the forward loop is entered (q.df is full_df), or skipped.
AutoForward(q, st) ==
    IF /\ ParseDate(q.edate) # NoneArg
       /\ q.edate > IndexMax(q.df)
       /\ MaxExtendIterations > 0
    THEN Issue(q, st, "forward", "fwd", 1,
               ForwardFetchArgs(q.df)[1], ForwardFetchArgs(q.df)[2])
    ELSE AutoBackward(q, st)

\* The preamble: full cache miss (or an empty series) asks for the one-shot
\* fetch, otherwise the extension sections follow.
AutoStart(q, st) ==
    LET full_cached == GetFullCached(st)
    IN IF ~full_cached.res.hit \/ full_cached.res.df = <<>>
       THEN Issue(q, full_cached.st, "direct", "cold", 0, ArgOf(q.sdate), ArgOf(q.edate))
       ELSE AutoForward([q EXCEPT !.df = full_cached.res.df], full_cached.st)

\* Mutant of AutoCold: the fetched series is returned without being put.
AutoColdNoPut(q, st, fetched) ==
    Return(Replied(q, fetched, FALSE), st, fetched)

\* The one-shot fetch has returned: put, get, return the hit or the fetch.
AutoCold(q, st, fetched) ==
    LET st1 == PutStore(st, QBaseKey, fetched, 0, selfTtl, now)
        final_hit == GetCall(st1, QBaseKey, q.sdate, q.edate, selfTtl, now)
    IN Return(Replied(q, fetched, TRUE), final_hit.st,
              IF final_hit.res.hit
              THEN Value(final_hit.res.symbol, final_hit.res.name, final_hit.res.df)
              ELSE fetched)

\* Mutant of AutoForwardReply: an empty reply does not end the forward loop.
AutoForwardReplyNoEmptyStop(q, st, fetched) ==
    IF q.iter < MaxExtendIterations
    THEN Issue(Replied(q, fetched, FALSE), st, "forward", "fwd", q.iter + 1,
               ForwardFetchArgs(q.df)[1], ForwardFetchArgs(q.df)[2])
    ELSE AutoBackward(Replied(q, fetched, FALSE), st)

\* Mutant of AutoForwardReply: the reply is kept aside, not put, and the
\* backward section starts at once.
AutoForwardReplyDeferredPut(q, st, fetched) ==
    AutoBackward(Replied(q, fetched, FALSE), st)

\* One pass of the forward loop after its fetch has returned.
AutoForwardReply(q, st, fetched) ==
    IF fetched.df = <<>> THEN AutoBackward(Replied(q, fetched, FALSE), st)
    ELSE LET q1 == Replied(q, fetched, TRUE)
             st1 == PutStore(st, QBaseKey, fetched, 0, selfTtl, now)
             refreshed == GetFullCached(st1)
             current_latest == IndexMax(q.df)
             q2 == [q1 EXCEPT !.df = refreshed.res.df,
                              !.log[Len(q1.log)].moved =
                                  IndexMax(refreshed.res.df) > current_latest]
         IN IF ~refreshed.res.hit THEN AutoBackward(q1, refreshed.st)
            ELSE IF IndexMax(q2.df) <= current_latest THEN AutoBackward(q2, refreshed.st)
            ELSE IF IndexMax(q2.df) >= q.edate THEN AutoBackward(q2, refreshed.st)
            ELSE IF q.iter < MaxExtendIterations
                 THEN Issue(q2, refreshed.st, "forward", "fwd", q.iter + 1,
                            ForwardFetchArgs(q2.df)[1], ForwardFetchArgs(q2.df)[2])
            ELSE AutoBackward(q2, refreshed.st)

\* Mutant of BackwardSufficient: one row more is asked for.
BackwardSufficientOneMore(full_df, request_edate) ==
    /\ Len(DataBefore(full_df, request_edate)) > MinRowsBeforeEdate + 1
    /\ IndexMin(full_df) <= request_edate

\* The stop test at the end of a pass of the backward loop.
BackwardSufficient(full_df, request_edate) ==
    /\ Len(DataBefore(full_df, request_edate)) > MinRowsBeforeEdate
    /\ IndexMin(full_df) <= request_edate

\* One pass of the backward loop after its fetch has returned.
AutoBackwardReply(q, st, fetched) ==
    IF fetched.df = <<>> THEN AutoFinalize(Replied(q, fetched, FALSE), st)
    ELSE LET q1 == Replied(q, fetched, TRUE)
             st1 == PutStore(st, QBaseKey, fetched, 0, selfTtl, now)
             refreshed == GetFullCached(st1)
             current_earliest == IndexMin(q.df)
             q2 == [q1 EXCEPT !.df = refreshed.res.df,
                              !.log[Len(q1.log)].moved =
                                  IndexMin(refreshed.res.df) < current_earliest]
         IN IF ~refreshed.res.hit THEN AutoFinalize(q1, refreshed.st)
            ELSE IF IndexMin(q2.df) >= current_earliest THEN AutoFinalize(q2, refreshed.st)
            ELSE IF BackwardSufficient(q2.df, q.edate) THEN AutoFinalize(q2, refreshed.st)
            ELSE IF q.iter < MaxExtendIterations
                 THEN Issue(q2, refreshed.st, "backward", "bwd", q.iter + 1,
                            BackwardFetchArgs(q2.df)[1], BackwardFetchArgs(q2.df)[2])
            ELSE AutoFinalize(q2, refreshed.st)

\* The fallback fetch has returned: put, return the fetch.
AutoFallback(q, st, fetched) ==
    Return(Replied(q, fetched, TRUE),
           PutStore(st, QBaseKey, fetched, 0, selfTtl, now), fetched)

\* get_price_auto_merge resumed with the vendor's reply.
AutoReply(q, st, fetched) ==
    CASE q.pc = "cold" -> AutoCold(q, st, fetched)
      [] q.pc = "fwd" -> AutoForwardReply(q, st, fetched)
      [] q.pc = "bwd" -> AutoBackwardReply(q, st, fetched)
      [] q.pc = "fallback" -> AutoFallback(q, st, fetched)

\* ------------------------------------------------ Market (markets/base.py)
\* _get_cached(key, sdate, edate) on a PersistentCache: the window of a
\* full-form key is dropped, the one passed as arguments is used.
GetCached(st, key, sdate, edate) ==
    IF Len(key) = 3 THEN GetCall(st, key, sdate, edate, selfTtl, now)
    ELSE IF Len(key) >= 6
         THEN GetCall(st, BaseKeyForm(key[1], key[4], key[6]), sdate, edate, selfTtl, now)
    ELSE GetCall(st, key, NoneArg, NoneArg, selfTtl, now)

\* _put_cache(key, value) on a PersistentCache.
PutCache(st, key, value) ==
    IF Len(key) = 3 THEN PutStore(st, key, value, 0, selfTtl, now)
    ELSE IF Len(key) >= 6
         THEN PutStore(st, BaseKeyForm(key[1], key[4], key[6]), value, 0, selfTtl, now)
    ELSE PutStore(st, key, value, 0, selfTtl, now)

\* The plan made on a cache hit: the flags and (extend_sdate, extend_edate).
MarketPlan(cached_df, sdate, edate) ==
    LET cached_earliest == IndexMin(cached_df)
        cached_latest == IndexMax(cached_df)
        has_s == sdate # EmptyDate
        has_e == edate # EmptyDate
        forward == has_e /\ edate > cached_latest
        length == /\ ~forward /\ has_e
                  /\ Len(DataBefore(cached_df, edate)) <= MarketMinRows
        early == ~forward /\ ~has_e /\ (has_e /\ edate < cached_earliest)
        backward == early \/ (has_s /\ sdate < cached_earliest /\ ~early)
        ext == IF has_s /\ sdate < cached_earliest /\ ~early
               THEN <<ArgOf(sdate), GivenDate(cached_earliest - 1)>>
               ELSE IF forward THEN <<GivenDate(cached_latest + 1), ArgOf(edate)>>
               ELSE IF length THEN <<GivenDate(edate - ExtendStepDays), ArgOf(edate)>>
               ELSE IF early THEN <<GivenDate(edate - ExtendStepDays),
                                    GivenDate(cached_earliest - 1)>>
               ELSE <<ArgOf(sdate), ArgOf(edate)>>
    IN [mode |-> Mode(forward, backward, length), ext_s |-> ext[1], ext_e |-> ext[2]]

\* How a fetch of the extension loop is counted: a forward extension when
\* only need_extend_forward is set, a backward one otherwise.
MarketFetchKind(mode) ==
    IF mode.forward /\ ~mode.backward /\ ~mode.length THEN "forward" ELSE "backward"

\* The merge of the extension loop: concat, drop duplicates keeping the last, sort.
MarketMerge(current_merged_df, extended_df) ==
    SortIndex(DropDuplicatesKeepLast(current_merged_df \o extended_df))

\* The final mask of _get_price_with_persistent_cache.
MarketFilter(df, sdate, edate) ==
    LET InBoth(r) == RowDate(r) >= sdate /\ RowDate(r) <= edate
        FromStart(r) == RowDate(r) >= sdate
        ToEnd(r) == RowDate(r) <= edate
    IN IF sdate # EmptyDate /\ edate # EmptyDate THEN SelectSeq(df, InBoth)
       ELSE IF sdate # EmptyDate THEN SelectSeq(df, FromStart)
       ELSE IF edate # EmptyDate THEN SelectSeq(df, ToEnd)
       ELSE df

\* After the loop: filter to the window, put the result, return it.
MarketExit(q, st) ==
    LET result == Value(QSymbol, q.name, MarketFilter(q.df, q.sdate, q.edate))
    IN Return(q, PutCache(st, QCacheKey(q.sdate, q.edate), result), result)

\* Mutant of MarketContinue: the loop test lets one pass too many through.
MarketContinueOneMore(q, st) ==
    IF q.iter <= MarketMaxIterations
    THEN Issue(q, st, MarketFetchKind(q.mode), "mloop", q.iter + 1, q.ext_s, q.ext_e)
    ELSE MarketExit(q, st)

\* The extension loop goes round (while iteration < max_iterations) or ends.
MarketContinue(q, st) ==
    IF q.iter < MarketMaxIterations
    THEN Issue(q, st, MarketFetchKind(q.mode), "mloop", q.iter + 1, q.ext_s, q.ext_e)
    ELSE MarketExit(q, st)

\* _get_price_with_persistent_cache up to its first fetch or its return.
MarketStart(q, st) ==
    LET cached == GetCached(st, QCacheKey(q.sdate, q.edate), q.sdate, q.edate)
    IN IF ~cached.res.hit
       THEN Issue(q, cached.st, "direct", "mcold", 0, ArgOf(q.sdate), ArgOf(q.edate))
       ELSE IF cached.res.df = <<>>
       THEN Issue(q, cached.st, "direct", "mcold", 0, ArgOf(q.sdate), ArgOf(q.edate))
       ELSE LET plan == MarketPlan(cached.res.df, q.sdate, q.edate)
                q1 == [q EXCEPT !.df = cached.res.df, !.name = cached.res.name,
                                !.mode = plan.mode,
                                !.ext_s = plan.ext_s, !.ext_e = plan.ext_e]
            IN IF plan.mode.forward \/ plan.mode.backward \/ plan.mode.length
               THEN MarketContinue(q1, cached.st)
               ELSE Return(q1, cached.st, Value(QSymbol, cached.res.name, cached.res.df))

\* One pass of the extension loop after its fetch has returned.
MarketLoopReply(q, st, fetched) ==
    LET q1 == Replied(q, fetched, FALSE)
    IN IF fetched.df = <<>> THEN MarketExit(q1, st)
       ELSE LET merged == MarketMerge(q.df, fetched.df)
                q2 == [q1 EXCEPT !.df = merged]
            IN IF (q.mode.length \/ q.mode.backward) /\ q.edate # EmptyDate
               THEN IF Len(DataBefore(merged, q.edate)) > MarketMinRows
                    THEN MarketExit(q2, st)
                    ELSE IF IndexMin(merged) <= q.ext_s.d THEN MarketExit(q2, st)
                    ELSE MarketContinue(
                           [q2 EXCEPT !.ext_s = GivenDate(q.ext_s.d - ExtendStepDays)], st)
               ELSE IF q.mode.forward /\ ~q.mode.length /\ ~q.mode.backward
                    THEN MarketExit(q2, st)
               ELSE MarketContinue(q2, st)

\* The direct fetch (cache miss, or an invalid cached series) has returned.
MarketCold(q, st, fetched) ==
    Return(Replied(q, fetched, TRUE),
           PutCache(st, QCacheKey(q.sdate, q.edate), fetched), fetched)

\* _get_price_with_persistent_cache resumed with the vendor's reply.
MarketReply(q, st, fetched) ==
    CASE q.pc = "mcold" -> MarketCold(q, st, fetched)
      [] q.pc = "mloop" -> MarketLoopReply(q, st, fetched)

\* --------------------- the trivial cache wrapper (HKStockMarket.get_price)
\* _get_cached(cache_key) with no window, then the fetch on a miss.
PlainStart(q, st) ==
    LET cached == GetCached(st, QCacheKey(q.sdate, q.edate), EmptyDate, EmptyDate)
    IN IF cached.res.hit
       THEN Return(q, cached.st, Value(cached.res.symbol, cached.res.name, cached.res.df))
       ELSE Issue(q, cached.st, "direct", "pcold", 0, ArgOf(q.sdate), ArgOf(q.edate))

\* The fetch has returned: _put_cache, return the result.
PlainReply(q, st, fetched) ==
    Return(Replied(q, fetched, TRUE),
           PutCache(st, QCacheKey(q.sdate, q.edate), fetched), fetched)

\* ------------------------------------------------------- query actions
\* The routines a price query may run.
Orchs == {"auto", "market", "plain"}

\* Series a vendor returns: any dates of the calendar, in increasing order.
VendorFrags ==
    {f \in UNION {[1..n -> Dates \X {"p"}] : n \in 0..MaxDate} : StrictlyIncreasing(f)}

\* Windows a caller asks for: each bound empty or a date; edate may lie one
\* day past the calendar (a day the vendor has no data for).
QWindows ==
    {w \in ({EmptyDate} \cup Dates) \X ({EmptyDate} \cup 1..(MaxDate + 1)) :
        w[1] = EmptyDate \/ w[2] = EmptyDate \/ w[1] <= w[2]}

\* What a query remembers of the one before it.
NoPrev ==
    [orch |-> "", sdate |-> EmptyDate, edate |-> EmptyDate, res |-> NoValue,
     fresh |-> FALSE, honest |-> FALSE]
PrevOf(q, st) ==
    [orch |-> q.orch, sdate |-> q.sdate, edate |-> q.edate, res |-> q.res,
     fresh |-> q.pre = EmptyStore /\ Len(q.log) = 1 /\ st[QBaseKey].present,
     honest |-> q.honest]

\* The routine up to its first fetch or its return.
StartOf(q, st) ==
    CASE q.orch = "auto" -> AutoStart(q, st)
      [] q.orch = "market" -> MarketStart(q, st)
      [] q.orch = "plain" -> PlainStart(q, st)

\* The routine resumed with the vendor's reply.
ReplyOf(q, st, fetched) ==
    CASE q.orch = "auto" -> AutoReply(q, st, fetched)
      [] q.orch = "market" -> MarketReply(q, st, fetched)
      [] q.orch = "plain" -> PlainReply(q, st, fetched)

\* No query is in progress.
Idle == last.op = "init" \/ (last.op = "query" /\ last.pc = "done")

\* A caller starts a price query.
QueryStart(orch, sdate, edate, prev) ==
    /\ Idle
    /\ LET r == StartOf(Query(orch, sdate, edate, store, prev), store)
       IN store' = r.st /\ last' = r.q
    /\ UNCHANGED <<selfTtl, now>>

\* The vendor answers the pending fetch.
VendorReply(df) ==
    /\ last.op = "query" /\ last.pc # "done"
    /\ LET r == ReplyOf(last, store, Value(QSymbol, QName, df))
       IN store' = r.st /\ last' = r.q
    /\ UNCHANGED <<selfTtl, now>>

\* ---------------------------------------- specification: price queries
\* Any number of queries, one after the other, by any of the routines, on
\* a cache without ttl; today is the last day of the calendar.
InitQuery ==
    /\ store = EmptyStore
    /\ selfTtl = 0
    /\ now = MaxDate
    /\ last = InitCall

NextQuery ==
    \/ \E o \in Orchs, w \in QWindows : QueryStart(o, w[1], w[2], NoPrev)
    \/ \E df \in VendorFrags : VendorReply(df)

SpecQuery == InitQuery /\ [][NextQuery]_vars

\* ------------------------------- specification: the same query twice
\* What the next query of the pair may ask: anything on the fresh cache,
\* then the same routine and window again, which remembers the first.
RepeatChoices ==
    IF last.op = "init"
    THEN {<<o, w[1], w[2], NoPrev>> : o \in Orchs, w \in QWindows}
    ELSE {<<last.orch, last.sdate, last.edate, PrevOf(last, store)>>}

\* The first query, or the repeat of the first once it has returned.
FirstOrRepeatQuery ==
    /\ last.op = "init" \/ (last.op = "query" /\ last.prev = NoPrev)
    /\ \E c \in RepeatChoices : QueryStart(c[1], c[2], c[3], c[4])

NextRepeat ==
    \/ FirstOrRepeatQuery
    \/ \E df \in VendorFrags : VendorReply(df)

SpecRepeat == InitQuery /\ [][NextRepeat]_vars

\* ================================================================
\* Properties of the price queries.
\* Whether the backend held no series (or an empty one) for the base key
\* when the query started.
ColdAtStart(q) == ~q.pre[QBaseKey].present \/ q.pre[QBaseKey].df = <<>>

\* The fetches of the log of the given kind.
FetchesOfKind(log, kind) == {i \in 1..Len(log) : log[i].kind = kind}

\* C11 (SpecQuery): a query that finds no (or an empty) series under
\* symbol:freq:fq performs exactly one fetch, with the caller's sdate, edate,
\* freq, days and fq, puts the result, and the backend then holds an entry
\* under symbol:freq:fq whenever the fetched series is non-empty.
C11_ColdMissOneFetch ==
    (last.op = "query" /\ ColdAtStart(last))
    => /\ Len(last.log) = 1
       /\ last.log[1].symbol = QSymbol
       /\ last.log[1].sdate = ArgOf(last.sdate)
       /\ last.log[1].edate = ArgOf(last.edate)
       /\ last.log[1].freq = QFreq /\ last.log[1].days = QDays /\ last.log[1].fq = QFq
       /\ last.pc = "done"
          => /\ last.log[1].replied
             /\ ~last.log[1].empty => (last.log[1].put /\ store[QBaseKey].present)
             /\ last.log[1].empty => store = last.pre

\* C11 witness: get_price_auto_merge has answered a cold miss with one
\* non-empty fetch and the backend holds the entry.
C11_Witness ==
    /\ last.op = "query" /\ last.orch = "auto" /\ last.pc = "done"
    /\ ColdAtStart(last)
    /\ Len(last.log) = 1 /\ ~last.log[1].empty
    /\ store[QBaseKey].present
    /\ last.sdate # EmptyDate

\* C12 (SpecRepeat): after a day-frequency query on an empty cache has
\* fetched and cached its window (the vendor's rows all inside it), the same
\* query again performs no fetch and returns the same table.
C12_ExactRangeHit ==
    (/\ last.op = "query" /\ last.orch \in {"auto", "market"}
     /\ last.prev.fresh /\ last.prev.honest)
    => /\ last.log = <<>>
       /\ last.pc = "done" => last.res.df = last.prev.res.df

\* The fetch a query is waiting for, if any.
Pending(q) == q.op = "query" /\ q.pc # "done"
PendingFetch(q) == q.log[Len(q.log)]

\* The series the backend holds under the base key.
CachedDf == store[QBaseKey].df

\* C13 (SpecQuery): a forward-extension fetch is issued only when the
\* requested edate is later than the cached latest date, with start = cached
\* latest date + 1 day and end = today.
C13_ForwardExtension ==
    (Pending(last) /\ PendingFetch(last).kind = "forward")
    => /\ last.edate # EmptyDate
       /\ store[QBaseKey].present
       /\ last.edate > IndexMax(CachedDf)
       /\ PendingFetch(last).sdate = GivenDate(IndexMax(CachedDf) + 1)
       /\ PendingFetch(last).edate = GivenDate(now)

\* The rows of df dated within [sdate, edate], for each bound that is given.
WindowOf(df, sdate, edate) ==
    LET In(r) == Covered(RowDate(r), sdate, edate) IN SelectSeq(df, In)

\* The first forward-extension fetch of a get_price_auto_merge call came
\* back empty.
FirstForwardEmpty(q) ==
    /\ q.op = "query" /\ q.orch = "auto"
    /\ Len(q.log) >= 1
    /\ q.log[1].kind = "forward" /\ q.log[1].replied /\ q.log[1].empty

\* Every fetch of the call after the first came back empty.
LaterFetchesEmpty(q) == \A i \in 2..Len(q.log) : q.log[i].replied /\ q.log[i].empty

C15_BackwardWarmup ==
    /\ (Pending(last) /\ PendingFetch(last).kind = "backward")
       => /\ store[QBaseKey].present
          /\ PendingFetch(last).sdate = NoDate
          /\ PendingFetch(last).edate = GivenDate(IndexMin(CachedDf) - 1)
    /\ (/\ last.op = "query" /\ last.orch \in {"auto", "market"}
        /\ last.edate # EmptyDate
        /\ ~ColdAtStart(last)
        /\ FetchesOfKind(last.log, "forward") = {}
        /\ LET df == last.pre[QBaseKey].df
           IN \/ last.edate < IndexMin(df)
              \/ Len(DataBefore(df, last.edate)) <= MinRowsBeforeEdate)
       => FetchesOfKind(last.log, "backward") # {}

Min2(a, b) == IF a <= b THEN a ELSE b

\* The backward-extension fetches of a query, and the last of them.
BackwardFetches(q) == FetchesOfKind(q.log, "backward")
LastBackward(q) == q.log[CHOOSE i \in BackwardFetches(q) : \A j \in BackwardFetches(q) : j <= i]

\* get_price_auto_merge has returned a non-empty table.
AutoReturned(q) ==
    q.op = "query" /\ q.orch = "auto" /\ q.pc = "done" /\ q.res.df # <<>>

\* C17 as stated (SpecQuery): when get_price_auto_merge returns a non-empty
\* table, the persisted latest date is >= min(returned latest, today), and,
\* when edate is given, the persisted series has more than
\* minRowsBeforeEdate rows dated <= edate or the backward loop ran
\* maxExtendIterations times.
C17_Original ==
    AutoReturned(last)
    => /\ store[QBaseKey].present
       /\ IndexMax(CachedDf) >= Min2(IndexMax(last.res.df), now)
       /\ last.edate # EmptyDate
          => \/ Len(DataBefore(CachedDf, last.edate)) > MinRowsBeforeEdate
             \/ Cardinality(BackwardFetches(last)) = MaxExtendIterations

\* C17 amended (SpecQuery): ... and, when edate is given and the call found
\* a cached series (it did not take the one-shot fetch), the persisted
\* series has more than minRowsBeforeEdate rows dated <= edate, or the
\* backward loop ran maxExtendIterations times, or it stopped at a fetch
\* that came back empty or did not move the cached earliest date earlier.
C17_PostCondition ==
    AutoReturned(last)
    => /\ store[QBaseKey].present
       /\ IndexMax(CachedDf) >= Min2(IndexMax(last.res.df), now)
       /\ (last.edate # EmptyDate /\ ~ColdAtStart(last))
          => \/ Len(DataBefore(CachedDf, last.edate)) > MinRowsBeforeEdate
             \/ Cardinality(BackwardFetches(last)) = MaxExtendIterations
             \/ /\ BackwardFetches(last) # {}
                /\ LastBackward(last).empty \/ ~LastBackward(last).moved

\* C17 witness: the call has returned rows after its backward loop ran
\* maxExtendIterations times without gathering the rows asked for.
C17_Witness ==
    /\ AutoReturned(last) /\ ~ColdAtStart(last) /\ last.edate # EmptyDate
    /\ Cardinality(BackwardFetches(last)) = MaxExtendIterations
    /\ LastBackward(last).moved
    /\ Len(DataBefore(CachedDf, last.edate)) <= MinRowsBeforeEdate


\* C18 (SpecQuery): bounded work. At every point of a price query, whatever
\* the vendor has returned, the query has issued at most maxExtendIterations
\* forward-extension fetches, at most maxExtendIterations
\* backward-extension fetches and at most one direct fetch, and the direct
\* fetch carries the original (sdate, edate); the fetches are made one at a
\* time and each step of a query is one fetch, so the query returns after at
\* most that many vendor replies.
C18_BoundedWork ==
    last.op = "query"
    => /\ Cardinality(FetchesOfKind(last.log, "forward")) <= MaxExtendIterations
       /\ Cardinality(FetchesOfKind(last.log, "backward")) <= MaxExtendIterations
       /\ Cardinality(FetchesOfKind(last.log, "direct")) <= 1
       /\ \A i \in FetchesOfKind(last.log, "direct") :
              /\ last.log[i].sdate = ArgOf(last.sdate)
              /\ last.log[i].edate = ArgOf(last.edate)
       /\ Len(last.log) <= 2 * MaxExtendIterations + 1
       /\ \A i \in 1..Len(last.log) :
              last.log[i].replied \/ (i = Len(last.log) /\ Pending(last))

\* C18 witness: a query of the market routine has returned after its loop
\* fetched on every one of the passes the cap allows.
C18_Witness ==
    /\ last.op = "query" /\ last.orch = "market" /\ last.pc = "done"
    /\ \/ Cardinality(FetchesOfKind(last.log, "forward")) = MaxExtendIterations
       \/ Cardinality(FetchesOfKind(last.log, "backward")) = MaxExtendIterations


\* C19 (SpecQuery): ordering within one price query. Every forward-extension
\* fetch that precedes a backward-extension fetch has been answered and,
\* unless the answer was empty, put into the cache before the backward fetch
\* was issued; and no forward-extension fetch follows a backward one.
C19_ForwardBeforeBackward ==
    last.op = "query"
    => \A i, j \in 1..Len(last.log) :
           i < j
           => /\ ~(last.log[i].kind = "backward" /\ last.log[j].kind = "forward")
              /\ (last.log[i].kind = "forward" /\ last.log[j].kind = "backward")
                 => /\ last.log[i].replied
                    /\ last.log[i].empty \/ last.log[i].put

\* C19 witness: a query has put the rows of a forward-extension fetch and
\* then issued a backward-extension fetch.
C19_Witness ==
    /\ last.op = "query"
    /\ \E i, j \in 1..Len(last.log) :
           /\ i < j
           /\ last.log[i].kind = "forward" /\ last.log[i].put
           /\ last.log[j].kind = "backward"


\* C20 (SpecQuery): a price query answered by a vendor that kept to the
\* window of every fetch returns only rows dated within the requested
\* [sdate, edate], for each bound that is given, whichever routine ran it.
C20_ResultInWindow ==
    (last.op = "query" /\ last.pc = "done" /\ last.honest)
    => last.res.df = WindowOf(last.res.df, last.sdate, last.edate)


\* ================================================================
\* Concurrent writers: two threads call PersistentCache.put on one cache.
\* The source takes no lock anywhere, so a thread may be preempted between
\* the get_raw of put and its backend.put.
Writers == {1, 2}

\* The base-form key both writers put under.
WKey == BaseKeyForm("A", "day", "qfq")

\* A writer: where it is in put, the value it puts, and the backend as its
\* get_raw saw it.
Writer(pc, value, seen) == [pc |-> pc, value |-> value, seen |-> seen]

\* Two puts about to start.
WritersCall(v1, v2, pre) ==
    [op |-> "writers", pre |-> pre,
     th |-> [t \in Writers |->
                Writer("start", IF t = 1 THEN v1 ELSE v2, EmptyStore)]]

\* put's backend.put, with the record computed from what get_raw returned
\* earlier: it overwrites the record under the base key, whatever is there.
PutStoreOnto(seen, cur, key, value, ttl, ttl0, t) ==
    IF value.df = <<>> THEN cur
    ELSE LET base_key == PutBaseKey(key, value)
         IN [cur EXCEPT ![base_key] = PutStore(seen, key, value, ttl, ttl0, t)[base_key]]

\* existing = self._backend.get_raw(base_key)
ReadExisting(t) ==
    /\ last.op = "writers" /\ last.th[t].pc = "start"
    /\ last' = [last EXCEPT !.th[t].pc = "read", !.th[t].seen = store]
    /\ UNCHANGED <<store, selfTtl, now>>

\* merge with existing, then self._backend.put(...)
MergeAndWrite(t) ==
    /\ last.op = "writers" /\ last.th[t].pc = "read"
    /\ store' = PutStoreOnto(last.th[t].seen, store, WKey, last.th[t].value,
                             0, selfTtl, now)
    /\ last' = [last EXCEPT !.th[t].pc = "done"]
    /\ UNCHANGED <<selfTtl, now>>

\* Caches the two puts may find: empty, or holding one earlier fragment.
WriterStores ==
    {EmptyStore} \cup {PutStore(EmptyStore, WKey, Value("A", "n1", f), 0, 0, 0) : f \in SeriesFrags \ {<<>>}}

InitWriters ==
    /\ store \in WriterStores
    /\ selfTtl = 0
    /\ now = 0
    /\ last \in {WritersCall(Value("A", "n1", f1), Value("A", "n1", f2), store) :
                    f1, f2 \in SeriesFrags \ {<<>>}}

NextWriters ==
    \/ \E t \in Writers : ReadExisting(t)
    \/ \E t \in Writers : MergeAndWrite(t)

SpecWriters == InitWriters /\ [][NextWriters]_vars

\* Both puts have returned.
WritersDone == last.op = "writers" /\ \A t \in Writers : last.th[t].pc = "done"

\* C21 (SpecWriters): no lost update. Once two concurrent puts under one
\* base key have both returned, the stored series holds every date of both
\* written fragments, whatever the interleaving of their steps.
C21_NoLostUpdate ==
    WritersDone
    => /\ store[WKey].present
       /\ \A t \in Writers : DatesOf(last.th[t].value.df) \subseteq DatesOf(store[WKey].df)


\* ================================================================
\* The file-backed backends (JsonlBackend, PickleBackend): an in-memory map
\* _data (here: store, with the insertion order of its keys) and one file
\* rewritten whole by _save after each mutation. Two threads put under
\* different base keys; nothing in the source serialises them.
SaveKey(t) == IF t = 1 THEN BaseKeyForm("A", "day", "qfq") ELSE BaseKeyForm("B", "day", "qfq")

\* The record backend.put installs for a one-row series with payload v.
SaveRec(t, v) ==
    BackendPut(EmptyStore, SaveKey(t), SaveKey(t)[1], "n1", <<Row(1, v)>>,
               1, 1, "day", "qfq", NoExpire)[SaveKey(t)]

\* One line of the file: the key and the record written for it.
Line(key, rec) == [key |-> key, rec |-> rec]

\* _load: the map a backend opened on the file builds, line by line (a
\* later line for a key replaces an earlier one).
RECURSIVE LoadLines(_, _)
LoadLines(lines, acc) ==
    IF lines = <<>> THEN acc
    ELSE LoadLines(Tail(lines), [acc EXCEPT ![Head(lines).key] = Head(lines).rec])
LoadFile(file) == LoadLines(file, EmptyStore)

\* What a dict iteration yields for a map: one line per key, in insertion
\* order.
RECURSIVE LinesOf(_, _)
LinesOf(order, st) ==
    IF order = <<>> THEN <<>>
    ELSE <<Line(Head(order), st[Head(order)])>> \o LinesOf(Tail(order), st)

\* The buffered writes of a file object reach the file when it is closed:
\* they land at the object's own offset 0, over whatever is there by then.
Overlay(file, buf) == buf \o SubSeq(file, Len(buf) + 1, Len(file))

\* A thread inside backend.put: its position, its key and record, the dict
\* iterator of _save (next index, size when created) and its file buffer.
Saver(pc, key, rec) == [pc |-> pc, key |-> key, rec |-> rec, i |-> 1, size |-> 0, buf |-> <<>>]

SaversCall(v1, v2, order, file, pre) ==
    [op |-> "savers", pre |-> pre, order |-> order, file |-> file,
     th |-> [t \in Writers |-> Saver("start", SaveKey(t), SaveRec(t, IF t = 1 THEN v1 ELSE v2))]]

\* self._data[base_key] = {...}
MapUpdate(t) ==
    /\ last.op = "savers" /\ last.th[t].pc = "start"
    /\ store' = [store EXCEPT ![last.th[t].key] = last.th[t].rec]
    /\ last' = [last EXCEPT !.th[t].pc = "open",
                            !.order = IF store[last.th[t].key].present THEN @
                                      ELSE Append(@, last.th[t].key)]
    /\ UNCHANGED <<selfTtl, now>>

\* _save: open(self.path, "w") truncates the file; the loop's iterator over
\* self._data.items() is created.
OpenFile(t) ==
    /\ last.op = "savers" /\ last.th[t].pc = "open"
    /\ last' = [last EXCEPT !.file = <<>>,
                            !.th[t].pc = "loop", !.th[t].i = 1,
                            !.th[t].size = Len(last.order), !.th[t].buf = <<>>]
    /\ UNCHANGED <<store, selfTtl, now>>

\* One turn of the loop of _save: the iterator raises RuntimeError when the
\* dict changed size (the with block closes the file, put raises), ends
\* after the last item, or yields the item as it is now, written to the
\* buffer.
WriteLine(t) ==
    /\ last.op = "savers" /\ last.th[t].pc = "loop"
    /\ LET th == last.th[t]
       IN last' =
            IF Len(last.order) # th.size
            THEN [last EXCEPT !.file = Overlay(@, th.buf), !.th[t].pc = "failed"]
            ELSE IF th.i > Len(last.order)
            THEN [last EXCEPT !.th[t].pc = "close"]
            ELSE [last EXCEPT !.th[t].i = @ + 1,
                              !.th[t].buf = Append(@, Line(last.order[th.i],
                                                           store[last.order[th.i]]))]
    /\ UNCHANGED <<store, selfTtl, now>>

\* The with block ends: the file is closed and its buffer flushed.
CloseFile(t) ==
    /\ last.op = "savers" /\ last.th[t].pc = "close"
    /\ last' = [last EXCEPT !.file = Overlay(@, last.th[t].buf), !.th[t].pc = "done"]
    /\ UNCHANGED <<store, selfTtl, now>>

\* The maps the two puts may find (with the file a quiet backend has
\* written for them): empty, one of the keys, or both with older records.
SaverOrders == {<<>>, <<SaveKey(1)>>, <<SaveKey(2)>>, <<SaveKey(1), SaveKey(2)>>, <<SaveKey(2), SaveKey(1)>>}
SaverMap(order) ==
    [k \in BaseKeys |->
        IF \E i \in 1..Len(order) : order[i] = k
        THEN SaveRec(IF k = SaveKey(1) THEN 1 ELSE 2, "p") ELSE NoRec]

InitSavers ==
    /\ selfTtl = 0
    /\ now = 0
    /\ \E order \in SaverOrders, v1, v2 \in Vals :
          /\ store = SaverMap(order)
          /\ last = SaversCall(v1, v2, order, LinesOf(order, SaverMap(order)), SaverMap(order))

NextSavers ==
    \/ \E t \in Writers : MapUpdate(t)
    \/ \E t \in Writers : OpenFile(t)
    \/ \E t \in Writers : WriteLine(t)
    \/ \E t \in Writers : CloseFile(t)

SpecSavers == InitSavers /\ [][NextSavers]_vars

\* Both puts are over (returned, or raised out of _save).
SaversDone == last.op = "savers" /\ \A t \in Writers : last.th[t].pc \in {"done", "failed"}

\* C22 (SpecSavers): once two concurrent puts under different base keys are
\* both over, the in-memory map holds both records and the file, read back,
\* gives the same map.
C22_ParallelPutsSafe ==
    SaversDone
    => /\ \A t \in Writers : store[last.th[t].key] = last.th[t].rec
       /\ LoadFile(last.file) = store


\* ================================================================
\* Minute queries on a PersistentCache. The backend may hold records under
\* keys whose freq field is "min", or whose fields come from a three-part
\* key of another shape (symbol:min:datalen).
MinuteBaseKeys ==
    BaseKeys \cup {<<"A", "min", "qfq">>, <<"A", "min", "1440">>}
MinuteEmptyStore == [k \in MinuteBaseKeys |-> NoRec]

\* A minute query: which path ran it, what it returned, the backend before.
MinuteCall(path, res, pre) == [op |-> "minute", path |-> path, res |-> res, pre |-> pre]

\* USStockMarket.get_price with freq in (min, 1min, minute):
\* _get_minute_data fetches and calls _put_cache("<symbol>:min", result).
USMinute(df) ==
    /\ store' = PutCache(store, <<"A", "min">>, Value("A", "n1", df))
    /\ last' = MinuteCall("us", Value("A", "n1", df), store)
    /\ UNCHANGED <<selfTtl, now>>

\* Market.get_price with a freq other than day (mainland, HK, futures):
\* _get_cached(cache_key), else fetch and _put_cache(cache_key, result).
GenericMinute(df) ==
    LET cache_key == FullKeyForm("A", EmptyDate, EmptyDate, "min", "320", "qfq")
        cached == GetCached(store, cache_key, EmptyDate, EmptyDate)
    IN /\ store' = IF cached.res.hit THEN cached.st
                   ELSE PutCache(cached.st, cache_key, Value("A", "n1", df))
       /\ last' = MinuteCall("generic",
                             IF cached.res.hit
                             THEN Value(cached.res.symbol, cached.res.name, cached.res.df)
                             ELSE Value("A", "n1", df), store)
       /\ UNCHANGED <<selfTtl, now>>

\* FutureMarket._get_btc_minute_price: cache_key = "<symbol>:min:<datalen>".
BtcMinute(df) ==
    LET cache_key == <<"A", "min", "1440">>
        cached == GetCached(store, cache_key, EmptyDate, EmptyDate)
    IN /\ store' = IF cached.res.hit THEN cached.st
                   ELSE PutCache(cached.st, cache_key, Value("A", "BTC", df))
       /\ last' = MinuteCall("btc",
                             IF cached.res.hit
                             THEN Value(cached.res.symbol, cached.res.name, cached.res.df)
                             ELSE Value("A", "BTC", df), store)
       /\ UNCHANGED <<selfTtl, now>>

\* A day query in between (the plain put of a daily series).
DayPut(df) ==
    /\ store' = PutStore(store, BaseKeyForm("A", "day", "qfq"), Value("A", "n1", df),
                         0, selfTtl, now)
    /\ last' = [op |-> "dayput", pre |-> store]
    /\ UNCHANGED <<selfTtl, now>>

\* Frames a vendor returns: never empty (the minute paths raise on those).
MinuteFrames == {<<Row(d, "p")>> : d \in Dates}

InitMinute ==
    /\ store = MinuteEmptyStore
    /\ selfTtl = 0
    /\ now = 0
    /\ last = [op |-> "init", pre |-> MinuteEmptyStore]

NextMinute ==
    \/ \E df \in MinuteFrames : USMinute(df)
    \/ \E df \in MinuteFrames : GenericMinute(df)
    \/ \E df \in MinuteFrames : BtcMinute(df)
    \/ \E df \in MinuteFrames : DayPut(df)

SpecMinute == InitMinute /\ [][NextMinute]_vars

\* C23 (SpecMinute): a price query with freq = min writes nothing to the
\* persistent backend: after it, every record, the one under symbol:day:qfq
\* included, is as it was before.
C23_MinuteNotPersisted ==
    last.op = "minute" => store = last.pre


\* ================================================================
\* The three single-file backends, each with its own stored form of a
\* record, and one PersistentCache over each, driven in lockstep.
BackendKinds == {"sqlite", "jsonl", "pickle"}

\* No row / no entry under a key.
NoRow == [stored |-> FALSE]

\* pickle.dumps / pickle.loads of a frame, base64 of a blob, and the
\* isoformat string of a timestamp (None stays None) with its parse.
PickleDumps(df) == <<"pickle", df>>
PickleLoads(blob) == blob[2]
B64Encode(blob) == <<"b64", blob>>
B64Decode(text) == text[2]
NoneStr == <<>>
IsoFormat(expire_at) == IF expire_at = NoExpire THEN NoneStr ELSE <<"iso", expire_at>>
ToDatetime(expire_at_str) == IF expire_at_str = NoneStr THEN NoExpire ELSE expire_at_str[2]

\* The columns / fields every backend keeps beside the data.
RowOf(rec, data, expire_at) ==
    [stored |-> TRUE, symbol |-> rec.symbol, name |-> rec.name, data |-> data,
     earliest_date |-> rec.earliest_date, latest_date |-> rec.latest_date,
     freq |-> rec.freq, fq |-> rec.fq, expire_at |-> expire_at]
RecOf(row, df, expire_at) ==
    [present |-> TRUE, symbol |-> row.symbol, name |-> row.name, df |-> df,
     earliest_date |-> row.earliest_date, latest_date |-> row.latest_date,
     freq |-> row.freq, fq |-> row.fq, expire_at |-> expire_at]

\* Mutant of SqlitePut: INSERT OR IGNORE, an existing row is kept.
SqlitePutInsertOrIgnore(b, base_key, rec) ==
    IF b[base_key].stored THEN b
    ELSE [b EXCEPT ![base_key] = RowOf(rec, PickleDumps(rec.df), IsoFormat(rec.expire_at))]

\* SQLiteBackend.put (INSERT OR REPLACE) and get_raw.
SqlitePut(b, base_key, rec) ==
    [b EXCEPT ![base_key] = RowOf(rec, PickleDumps(rec.df), IsoFormat(rec.expire_at))]
SqliteGetRaw(b, base_key) ==
    IF ~b[base_key].stored THEN NoRec
    ELSE RecOf(b[base_key], PickleLoads(b[base_key].data), ToDatetime(b[base_key].expire_at))

\* JsonlBackend.put and get_raw (the map side).
JsonlPut(b, base_key, rec) ==
    [b EXCEPT ![base_key] =
        RowOf(rec, B64Encode(PickleDumps(rec.df)), IsoFormat(rec.expire_at))]
JsonlGetRaw(b, base_key) ==
    IF ~b[base_key].stored THEN NoRec
    ELSE RecOf(b[base_key], PickleLoads(B64Decode(b[base_key].data)),
               ToDatetime(b[base_key].expire_at))

\* PickleBackend.put and get_raw (the map side): the frame and the
\* timestamp are kept as objects.
PicklePut(b, base_key, rec) ==
    [b EXCEPT ![base_key] = RowOf(rec, rec.df, rec.expire_at)]
PickleGetRaw(b, base_key) ==
    IF ~b[base_key].stored THEN NoRec
    ELSE RecOf(b[base_key], b[base_key].data, b[base_key].expire_at)

\* The protocol, by backend.
KindGetRaw(kind, b, base_key) ==
    CASE kind = "sqlite" -> SqliteGetRaw(b, base_key)
      [] kind = "jsonl" -> JsonlGetRaw(b, base_key)
      [] kind = "pickle" -> PickleGetRaw(b, base_key)
KindPut(kind, b, base_key, rec) ==
    CASE kind = "sqlite" -> SqlitePut(b, base_key, rec)
      [] kind = "jsonl" -> JsonlPut(b, base_key, rec)
      [] kind = "pickle" -> PicklePut(b, base_key, rec)

\* What get_raw answers for every key of a backend.
RawView(kind, b) == [k \in DOMAIN b |-> KindGetRaw(kind, b, k)]

\* delete / clear leave rows only where the cache's view still has records.
KeepRows(b, view) == [k \in DOMAIN b |-> IF view[k].present THEN b[k] ELSE NoRow]

\* PersistentCache.put over a backend of the given kind.
KindPutStore(kind, b, key, value, ttl, ttl0, t) ==
    IF value.df = <<>> THEN b
    ELSE LET base_key == PutBaseKey(key, value)
         IN KindPut(kind, b, base_key,
                    PutStore(RawView(kind, b), key, value, ttl, ttl0, t)[base_key])

\* PersistentCache.get over a backend of the given kind: the result and the
\* backend after the call (an expired record is deleted).
KindGetCall(kind, b, key, sdate, edate, ttl0, t) ==
    LET r == GetCall(RawView(kind, b), key, sdate, edate, ttl0, t)
    IN [res |-> r.res, b |-> KeepRows(b, r.st)]

EmptyRows == [k \in BaseKeys |-> NoRow]

\* The last operation on the three caches, with the three results of a get.
LockstepCall(op, res) == [op |-> op, res |-> res]

PutAll(key, value, ttl) ==
    /\ store' = [kind \in BackendKinds |->
                    KindPutStore(kind, store[kind], key, value, ttl, selfTtl, now)]
    /\ last' = LockstepCall("put3", [kind \in BackendKinds |-> Miss])
    /\ UNCHANGED <<selfTtl, now>>

GetAll(key, sdate, edate) ==
    LET r == [kind \in BackendKinds |->
                 KindGetCall(kind, store[kind], key, sdate, edate, selfTtl, now)]
    IN /\ store' = [kind \in BackendKinds |-> r[kind].b]
       /\ last' = LockstepCall("get3", [kind \in BackendKinds |-> r[kind].res])
       /\ UNCHANGED <<selfTtl, now>>

DeleteAll(key) ==
    /\ store' = [kind \in BackendKinds |->
                    KeepRows(store[kind], DeleteStore(RawView(kind, store[kind]), key))]
    /\ last' = LockstepCall("delete3", [kind \in BackendKinds |-> Miss])
    /\ UNCHANGED <<selfTtl, now>>

ClearAll ==
    /\ store' = [kind \in BackendKinds |->
                    KeepRows(store[kind], BackendClear(RawView(kind, store[kind])))]
    /\ last' = LockstepCall("clear3", [kind \in BackendKinds |-> Miss])
    /\ UNCHANGED <<selfTtl, now>>

\* Time passes, for the three caches alike.
TickAll ==
    /\ now < MaxTime
    /\ now' = now + 1
    /\ last' = LockstepCall("tick3", [kind \in BackendKinds |-> Miss])
    /\ UNCHANGED <<store, selfTtl>>

InitBackends ==
    /\ store = [kind \in BackendKinds |-> EmptyRows]
    /\ selfTtl \in Ttls
    /\ now = 0
    /\ last = LockstepCall("init", [kind \in BackendKinds |-> Miss])

NextBackends ==
    \/ \E k \in LifeKeys, f \in LifeFrags, n \in {"", "n1"}, t \in Ttls :
          PutAll(k, Value(k[1], n, f), t)
    \/ \E g \in LifeGets : GetAll(g[1], g[2], g[3])
    \/ \E k \in LifeKeys : DeleteAll(k)
    \/ ClearAll
    \/ TickAll

SpecBackends == InitBackends /\ [][NextBackends]_vars

NoFile == <<>>

\* An instance: the map (or table), the insertion order of its keys, the file.
Instance(data, order, file) == [data |-> data, order |-> order, file |-> file]

\* json.dumps of one object of the map, with its cache_key, as a line.
JsonDumps(key, row) == Line(key, <<"json", row>>)
\* _load of JsonlBackend: json.loads of every line, keyed by cache_key.
RECURSIVE JsonlLoad(_, _)
JsonlLoad(lines, acc) ==
    IF lines = <<>> THEN acc
    ELSE JsonlLoad(Tail(lines), [acc EXCEPT ![Head(lines).key] = Head(lines).rec[2]])

\* _save of JsonlBackend: one line per item of the map, in dict order.
RECURSIVE JsonlSave(_, _)
JsonlSave(order, data) ==
    IF order = <<>> THEN <<>>
    ELSE <<JsonDumps(Head(order), data[Head(order)])>> \o JsonlSave(Tail(order), data)

\* _save of the backend kind: the file after the rewrite (for SQLite:
\* commit).
KindSave(kind, data, order) ==
    CASE kind = "sqlite" -> <<"db", data>>
      [] kind = "jsonl" -> JsonlSave(order, data)
      [] kind = "pickle" -> <<PickleDumps(data)>>

\* What a new instance opened on the path holds.
KindLoad(kind, file) ==
    IF file = NoFile THEN EmptyRows
    ELSE CASE kind = "sqlite" -> file[2]
           [] kind = "jsonl" -> JsonlLoad(file, EmptyRows)
           [] kind = "pickle" -> PickleLoads(file[1])

\* The keys of a dict after an assignment / a deletion.
OrderPut(order, data, key) == IF data[key].stored THEN order ELSE Append(order, key)
OrderDel(order, key) == LET Other(k) == k # key IN SelectSeq(order, Other)

\* put of the protocol: update, then _save (commit).
InstancePut(kind, inst, key, rec) ==
    LET data == KindPut(kind, inst.data, key, rec)
        order == OrderPut(inst.order, inst.data, key)
    IN Instance(data, order, KindSave(kind, data, order))

\* Mutant of InstanceDelete: the entry is removed without _save (commit).
InstanceDeleteNoSave(kind, inst, key) ==
    IF ~inst.data[key].stored THEN inst
    ELSE Instance([inst.data EXCEPT ![key] = NoRow], OrderDel(inst.order, key), inst.file)

\* delete of the protocol: JsonlBackend and PickleBackend save only when
\* the key was there; SQLite deletes and commits.
InstanceDelete(kind, inst, key) ==
    IF ~inst.data[key].stored /\ kind # "sqlite" THEN inst
    ELSE LET data == [inst.data EXCEPT ![key] = NoRow]
             order == OrderDel(inst.order, key)
         IN Instance(data, order, KindSave(kind, data, order))

\* clear of the protocol.
InstanceClear(kind, inst) == Instance(EmptyRows, <<>>, KindSave(kind, EmptyRows, <<>>))

\* Records handed to put: one-row series, with or without an expiry.
DurableKeys == {<<"A", "day", "qfq">>, <<"B", "day", "qfq">>, <<"A", "week", "hfq">>}
DurableRecs ==
    {BackendPut(EmptyStore, k, k[1], "n1", <<Row(d, "p")>>, d, d, k[2], k[3], e)[k] :
        k \in {<<"A", "day", "qfq">>}, d \in {1, 2}, e \in {NoExpire, 1}}

DurableCall(op, key) == [op |-> op, key |-> key]

DurablePut(key, rec) ==
    /\ store' = [kind \in BackendKinds |-> InstancePut(kind, store[kind], key, rec)]
    /\ last' = DurableCall("dput", key)
    /\ UNCHANGED <<selfTtl, now>>

DurableDelete(key) ==
    /\ store' = [kind \in BackendKinds |-> InstanceDelete(kind, store[kind], key)]
    /\ last' = DurableCall("ddelete", key)
    /\ UNCHANGED <<selfTtl, now>>

DurableClear ==
    /\ store' = [kind \in BackendKinds |-> InstanceClear(kind, store[kind])]
    /\ last' = DurableCall("dclear", NoKey)
    /\ UNCHANGED <<selfTtl, now>>

InitDurable ==
    /\ store = [kind \in BackendKinds |-> Instance(EmptyRows, <<>>, NoFile)]
    /\ selfTtl = 0
    /\ now = 0
    /\ last = DurableCall("init", NoKey)

NextDurable ==
    \/ \E k \in DurableKeys, r \in DurableRecs : DurablePut(k, r)
    \/ \E k \in DurableKeys : DurableDelete(k)
    \/ DurableClear

SpecDurable == InitDurable /\ [][NextDurable]_vars

\* C25 (SpecDurable): after any sequence of put, delete and clear, a new
\* instance opened on the same path answers get_raw for every base key as
\* the original instance does, for the jsonl, pickle and relational
\* backends.
C25_Durable ==
    \A kind \in BackendKinds, k \in BaseKeys :
        KindGetRaw(kind, KindLoad(kind, store[kind].file), k)
            = KindGetRaw(kind, store[kind].data, k)

\* C25 witness: an entry has just been deleted from backends that still
\* hold another entry, in memory and on file.
C25_Witness ==
    /\ last.op = "ddelete"
    /\ \A kind \in BackendKinds :
          /\ ~store[kind].data[last.key].stored
          /\ \E k \in BaseKeys : KindLoad(kind, store[kind].file)[k].stored
          /\ Len(store["jsonl"].order) = 2


\* ================================================================
\* MarketPersistentCache: one JsonlBackend per market, chosen by a routing
\* function of a symbol.
Markets == {"cn", "hk", "us", "fu"}
FallbackMarket == "cn"

\* Symbols by the prefix the default route looks at (lower-cased).
ShardSymbols == {"usA", "fuA", "A"}
StartsWith(symbol, prefix) ==
    \/ prefix = "us" /\ symbol = "usA"
    \/ prefix = "fu" /\ symbol = "fuA"

\* _default_route
DefaultRoute(symbol) ==
    IF StartsWith(symbol, "us") THEN "us"
    ELSE IF StartsWith(symbol, "hk") THEN "hk"
    ELSE IF StartsWith(symbol, "fu") THEN "fu"
    ELSE "cn"

\* A route_fn of the user's: futures go to a market "jp" that has no shard.
CustomRoute(symbol) == IF StartsWith(symbol, "fu") THEN "jp" ELSE DefaultRoute(symbol)

RouteFn(route, symbol) == IF route = "default" THEN DefaultRoute(symbol) ELSE CustomRoute(symbol)

\* _backend_for_symbol: the market whose backend is used.
BackendForSymbol(route, symbol) ==
    LET market == RouteFn(route, symbol)
    IN IF market \in Markets THEN market ELSE FallbackMarket

\* The base keys the shards may hold, and a shard with no record.
ShardKeys == {<<s, "day", "qfq">> : s \in ShardSymbols}
EmptyShard == [k \in ShardKeys |-> NoRec]

\* Keys handed to the cache: base form and full form.
ShardCallKeys ==
    {BaseKeyForm(s, "day", "qfq") : s \in ShardSymbols}
    \cup {FullKeyForm(s, EmptyDate, EmptyDate, "day", "320", "qfq") : s \in ShardSymbols}

\* The symbol get reads from its key.
KeySymbol(key) == IF Len(key) = 3 THEN key[1] ELSE ExtractKeyParts(key)[1]

ShardCall(op, route, key, value, res, pre) ==
    [op |-> op, route |-> route, key |-> key, value |-> value, res |-> res, pre |-> pre]

\* MarketPersistentCache.put: the backend is chosen by the value's symbol.
ShardPut(key, value) ==
    LET m == BackendForSymbol(last.route, value.symbol)
    IN /\ store' = [store EXCEPT ![m] = PutStore(store[m], key, value, 0, selfTtl, now)]
       /\ last' = ShardCall("sput", last.route, key, value, Miss, store)
       /\ UNCHANGED <<selfTtl, now>>

\* MarketPersistentCache.get: the backend is chosen by the key's symbol.
ShardGet(key) ==
    LET m == BackendForSymbol(last.route, KeySymbol(key))
        r == GetCall(store[m], key, NoneArg, NoneArg, selfTtl, now)
    IN /\ store' = [store EXCEPT ![m] = r.st]
       /\ last' = ShardCall("sget", last.route, key, NoValue, r.res, store)
       /\ UNCHANGED <<selfTtl, now>>

\* MarketPersistentCache.delete: the backend is chosen by the key's symbol.
ShardDelete(key) ==
    LET m == BackendForSymbol(last.route, ExtractKeyParts(key)[1])
    IN /\ store' = [store EXCEPT ![m] = DeleteStore(store[m], key)]
       /\ last' = ShardCall("sdelete", last.route, key, NoValue, Miss, store)
       /\ UNCHANGED <<selfTtl, now>>

InitShards ==
    /\ store = [m \in Markets |-> EmptyShard]
    /\ selfTtl = 0
    /\ now = 0
    /\ \E route \in {"default", "custom"} :
          last = ShardCall("init", route, NoKey, NoValue, Miss, [m \in Markets |-> EmptyShard])

NextShards ==
    \/ \E k \in ShardCallKeys, s \in ShardSymbols :
          ShardPut(k, Value(s, "n1", <<Row(1, "p")>>))
    \/ \E k \in ShardCallKeys : ShardGet(k)
    \/ \E k \in ShardCallKeys : ShardDelete(k)

SpecShards == InitShards /\ [][NextShards]_vars

\* The markets whose shard holds a record under the base key.
Holders(base_key) == {m \in Markets : store[m][base_key].present}

\* C26 (SpecShards): every put changes only the shard the routing function
\* selects for the record's symbol (cn when the market has no shard), and
\* at most one shard ever holds a record for a given base key.
C26_OneShardPerKey ==
    /\ last.op = "sput"
       => \A m \in Markets :
             m # BackendForSymbol(last.route, last.value.symbol) => store[m] = last.pre[m]
    /\ \A k \in ShardKeys : Cardinality(Holders(k)) <= 1


\* ================================================================
\* USStockMarket._fetch_price_data: a US symbol without venue suffix is
\* fetched as symbol.OQ and symbol.N and the best answer is returned.
ProbeMaxRows == 4
ProbeMaxFirst == 3
MinCandidateRows == 3
Suffixes == <<".OQ", ".N">>

\* A parsed table of n rows on consecutive dates starting at first.
Run(first, n) == [i \in 1..n |-> Row(first + i - 1, "p")]

\* What fetch_kline + parse_tencent_kline give for one symbol: a table, or
\* a DataSourceError / ParseError.
FetchFailed == [ok |-> FALSE, df |-> <<>>]
FetchAnswers ==
    {FetchFailed}
    \cup {[ok |-> TRUE, df |-> Run(f, n)] : f \in 1..ProbeMaxFirst, n \in 1..ProbeMaxRows}

\* str() of an index label "YYYY-MM-DD", here its two day digits, and the
\* order of Python strings.
StrOfDate(d) == <<d \div 10, d % 10>>
RECURSIVE StrLess(_, _)
StrLess(a, b) ==
    IF b = <<>> THEN FALSE
    ELSE IF a = <<>> THEN TRUE
    ELSE IF Head(a) # Head(b) THEN Head(a) < Head(b)
    ELSE StrLess(Tail(a), Tail(b))

\* _score and the order of its tuples.
ScoreRowsOnly(df) == <<Len(df), <<>>>>
Score(df) == IF df = <<>> THEN <<0, <<>>>> ELSE <<Len(df), StrOfDate(df[1][1])>>
ScoreLess(a, b) == a[1] < b[1] \/ (a[1] = b[1] /\ StrLess(a[2], b[2]))

\* max(candidates, key=...): the first candidate of greatest score.
RECURSIVE MaxByScore(_, _)
MaxByScore(best, rest) ==
    IF rest = <<>> THEN best
    ELSE IF ScoreLess(Score(best.df), Score(Head(rest).df))
         THEN MaxByScore(Head(rest), Tail(rest))
         ELSE MaxByScore(best, Tail(rest))

Probe(pc, suffixed, fetched, candidates, res) ==
    [pc |-> pc, suffixed |-> suffixed, fetched |-> fetched,
     candidates |-> candidates, res |-> res]
NoCandidate == [suffix |-> "", df |-> <<>>]

\* A call for a symbol that already ends in .OQ / .N / .AM: one fetch,
\* its table is returned whatever its size, its error is raised again.
FetchSuffixed(a) ==
    /\ last.pc = "start"
    /\ last' = IF a.ok
               THEN Probe("returned", TRUE, <<a>>, <<>>, [suffix |-> "given", df |-> a.df])
               ELSE Probe("raised", TRUE, <<a>>, <<>>, NoCandidate)
    /\ UNCHANGED <<store, selfTtl, now>>

\* One turn of the loop over ('.OQ', '.N').
FetchCandidate(a) ==
    /\ last.pc \in {"start", "probing"}
    /\ Len(last.fetched) < Len(Suffixes)
    /\ LET suffix == Suffixes[Len(last.fetched) + 1]
           keep == a.ok /\ Len(a.df) >= MinCandidateRows
       IN last' = Probe("probing", FALSE, Append(last.fetched, a),
                        IF keep THEN Append(last.candidates, [suffix |-> suffix, df |-> a.df])
                        ELSE last.candidates,
                        NoCandidate)
    /\ UNCHANGED <<store, selfTtl, now>>

\* After the loop: DataSourceError without candidate, else the best one.
ChooseBest ==
    /\ last.pc = "probing"
    /\ Len(last.fetched) = Len(Suffixes)
    /\ last' = IF last.candidates = <<>>
               THEN [last EXCEPT !.pc = "raised"]
               ELSE [last EXCEPT !.pc = "returned",
                                 !.res = MaxByScore(Head(last.candidates), Tail(last.candidates))]
    /\ UNCHANGED <<store, selfTtl, now>>

InitProbe ==
    /\ store = <<>>
    /\ selfTtl = 0
    /\ now = 0
    /\ last = Probe("start", FALSE, <<>>, <<>>, NoCandidate)

NextProbe ==
    \/ \E a \in FetchAnswers : FetchSuffixed(a)
    \/ \E a \in FetchAnswers : FetchCandidate(a)
    \/ ChooseBest

SpecProbe == InitProbe /\ [][NextProbe]_vars

\* The probe returned and both symbol.OQ and symbol.N gave a series.
BothFetched ==
    /\ last.pc = "returned" /\ ~last.suffixed
    /\ last.fetched[1].ok /\ last.fetched[2].ok
OQRows == Len(last.fetched[1].df)
NRows == Len(last.fetched[2].df)
OQFirst == last.fetched[1].df[1][1]
NFirst == last.fetched[2].df[1][1]

\* C27 as stated (SpecProbe): the candidate with more rows is returned, and
\* with equal row counts the candidate whose first date is earlier.
C27_Original ==
    BothFetched =>
       /\ OQRows > NRows => last.res.suffix = ".OQ"
       /\ NRows > OQRows => last.res.suffix = ".N"
       /\ (OQRows = NRows /\ OQFirst < NFirst) => last.res.suffix = ".OQ"
       /\ (OQRows = NRows /\ NFirst < OQFirst) => last.res.suffix = ".N"

\* C27 (SpecProbe): the candidate with more rows is returned; with equal
\* row counts the candidate whose first date is later is returned, and .OQ
\* when the first dates are equal too.
C27_LaterFirstDateWins ==
    BothFetched =>
       /\ OQRows > NRows => last.res.suffix = ".OQ"
       /\ NRows > OQRows => last.res.suffix = ".N"
       /\ (OQRows = NRows /\ OQFirst > NFirst) => last.res.suffix = ".OQ"
       /\ (OQRows = NRows /\ NFirst > OQFirst) => last.res.suffix = ".N"
       /\ (OQRows = NRows /\ NFirst = OQFirst) => last.res.suffix = ".OQ"
       /\ last.res.df = last.fetched[IF last.res.suffix = ".OQ" THEN 1 ELSE 2].df

\* Both candidates have the same number of rows, .N starts later and is returned.
C27_Witness ==
    /\ BothFetched
    /\ OQRows = NRows /\ NFirst > OQFirst
    /\ last.res.suffix = ".N"


\* ================================================================
\* api.get_price and MarketFactory.create_from_symbol: the market is
\* chosen from the leading characters of the symbol.
MaxSymbolLen == 2
SymbolChars == {"0", "2", "5", "B", "K", "f", "u", "s", "h", "z", "k", "p", "t", "x"}
SymbolStrs == UNION {[1..n -> SymbolChars] : n \in 0..MaxSymbolLen}

\* symbol[:2]
Prefix2(symbol) == SubSeq(symbol, 1, IF Len(symbol) < 2 THEN Len(symbol) ELSE 2)

\* The exception classes and the ones derived from RQuoteException.
RQuoteErrors == {"DataSourceError", "ParseError", "SymbolError", "NetworkError",
                 "CacheError", "HTTPError"}
BuiltinErrors == {"ValueError", "IndexError"}
NoError == "none"

\* create_from_symbol: the market class, or the exception raised.
\* symbol[0] of an empty string raises IndexError.
NormalizeCode(symbol) ==
    IF symbol[1] \in {"0", "1", "3", "5", "6"}
    THEN (IF symbol[1] \in {"5", "6"} THEN <<"s", "h">> ELSE <<"s", "z">>) \o symbol
    ELSE symbol
CreateFromSymbol(symbol) ==
    IF symbol = <<>> THEN [market |-> "", error |-> "IndexError"]
    ELSE LET p == Prefix2(NormalizeCode(symbol))
         IN IF p = <<"B", "K">> THEN [market |-> "cn", error |-> NoError]
            ELSE IF p = <<"f", "u">> THEN [market |-> "fu", error |-> NoError]
            ELSE IF p = <<"p", "t">> THEN [market |-> "cn", error |-> NoError]
            ELSE IF p \in {<<"s", "h">>, <<"s", "z">>} THEN [market |-> "cn", error |-> NoError]
            ELSE IF p = <<"h", "k">> THEN [market |-> "hk", error |-> NoError]
            ELSE IF p = <<"u", "s">> THEN [market |-> "us", error |-> NoError]
            ELSE [market |-> "", error |-> "ValueError"]

PriceCall(symbol, dates_ok, market, error, reached) ==
    [op |-> "get_price", symbol |-> symbol, dates_ok |-> dates_ok, market |-> market,
     error |-> error, reached |-> reached]

\* api.get_price: the dates are checked (ValueError becomes SymbolError),
\* the factory picks the market, and only then market.get_price runs with
\* its cache lookups and vendor fetches.
ApiGetPrice(symbol, dates_ok) ==
    /\ last' = IF ~dates_ok THEN PriceCall(symbol, dates_ok, "", "SymbolError", FALSE)
               ELSE LET c == CreateFromSymbol(symbol)
                    IN IF c.error # NoError
                       THEN PriceCall(symbol, dates_ok, "", c.error, FALSE)
                       ELSE PriceCall(symbol, dates_ok, c.market, NoError, TRUE)
    /\ UNCHANGED <<store, selfTtl, now>>

InitRoute ==
    /\ store = <<>>
    /\ selfTtl = 0
    /\ now = 0
    /\ last = [op |-> "init"]

NextRoute == \E symbol \in SymbolStrs, dates_ok \in BOOLEAN : ApiGetPrice(symbol, dates_ok)

SpecRoute == InitRoute /\ [][NextRoute]_vars

\* The symbol matches no routing rule, as the claim words it.
NoRoutingRule(symbol) ==
    /\ Prefix2(symbol) \notin {<<"B", "K">>, <<"p", "t">>, <<"f", "u">>, <<"s", "h">>,
                               <<"s", "z">>, <<"h", "k">>, <<"u", "s">>}
    /\ symbol = <<>> \/ symbol[1] \notin {"0", "1", "3", "5", "6"}

\* C28 (SpecRoute): a price query for a symbol matching no routing rule,
\* the empty string included, fails with SymbolError, an error derived from
\* the library's root error, before the market's fetch or cache is reached.
C28_UnroutedIsSymbolError ==
    (last.op = "get_price" /\ NoRoutingRule(last.symbol))
    => /\ last.error = "SymbolError"
       /\ last.error \in RQuoteErrors
       /\ ~last.reached


\* ================================================================
\* HTTPClient.get: a GET with retries and linear back-off, and what its
\* caller TencentDataSource.fetch_kline passes on.
MaxRetry == 4
MaxDelay == 2

\* What one client.get + raise_for_status does: a response, an
\* httpx.HTTPError (transport or status error), or another exception.
AttemptOutcomes == {"ok", "httpx.HTTPError", "other"}

Http(pc, attempt, log, slept, result, adapter) ==
    [pc |-> pc, attempt |-> attempt, log |-> log, slept |-> slept,
     result |-> result, adapter |-> adapter]

\* The body of the loop for the value `attempt` of range(retry_times).
Attempt(outcome) ==
    /\ last.pc = "loop"
    /\ last.attempt < store.retry_times
    /\ LET log == Append(last.log, [outcome |-> outcome, at |-> now])
       IN last' =
            IF outcome = "ok" THEN [last EXCEPT !.pc = "returned", !.log = log, !.result = "response"]
            ELSE IF outcome = "other" THEN [last EXCEPT !.pc = "raised", !.log = log, !.result = "other"]
            ELSE IF last.attempt = store.retry_times - 1
                 THEN [last EXCEPT !.pc = "raised", !.log = log, !.result = "httpx.HTTPError"]
                 ELSE [last EXCEPT !.pc = "sleep", !.log = log]
    /\ UNCHANGED <<store, selfTtl, now>>

\* time.sleep(retry_delay * (attempt + 1)) and the next turn of the loop.
BackoffZeroBased ==
    /\ last.pc = "sleep"
    /\ now' = now + store.retry_delay * last.attempt
    /\ last' = [last EXCEPT !.pc = "loop", !.attempt = @ + 1,
                            !.slept = Append(@, store.retry_delay * last.attempt)]
    /\ UNCHANGED <<store, selfTtl>>

Backoff ==
    /\ last.pc = "sleep"
    /\ now' = now + store.retry_delay * (last.attempt + 1)
    /\ last' = [last EXCEPT !.pc = "loop", !.attempt = @ + 1,
                            !.slept = Append(@, store.retry_delay * (last.attempt + 1))]
    /\ UNCHANGED <<store, selfTtl>>

\* range(retry_times) is empty: the loop is skipped, None is returned.
ReturnNone ==
    /\ last.pc = "loop"
    /\ last.attempt >= store.retry_times
    /\ last' = [last EXCEPT !.pc = "returned", !.result = "None"]
    /\ UNCHANGED <<store, selfTtl, now>>

\* TencentDataSource.fetch_kline around http_client.get: None becomes
\* DataSourceError, an exception of get passes through, a response is parsed.
FetchKline ==
    /\ last.pc \in {"returned", "raised"}
    /\ last.adapter = "pending"
    /\ last' = [last EXCEPT !.adapter =
                   IF last.pc = "raised" THEN last.result
                   ELSE IF last.result = "None" THEN "DataSourceError"
                   ELSE "data"]
    /\ UNCHANGED <<store, selfTtl, now>>

InitHttp ==
    /\ \E n \in 0..MaxRetry, d \in 1..MaxDelay : store = [retry_times |-> n, retry_delay |-> d]
    /\ selfTtl = 0
    /\ now = 0
    /\ last = Http("loop", 0, <<>>, <<>>, "", "pending")

NextHttp ==
    \/ \E outcome \in AttemptOutcomes : Attempt(outcome)
    \/ Backoff
    \/ ReturnNone
    \/ FetchKline

SpecHttp == InitHttp /\ [][NextHttp]_vars

\* C29 (SpecHttp): one get makes at most retry_times attempts, a successful
\* attempt is the last one and its response is returned, and attempt k+1
\* starts retry_delay * k after the failed attempt k.
C29_RetryBackoff ==
    /\ Len(last.log) <= store.retry_times
    /\ \A k \in 1..Len(last.log) :
          last.log[k].outcome = "ok"
          => k = Len(last.log) /\ last.pc = "returned" /\ last.result = "response"
    /\ \A k \in 1..(Len(last.log) - 1) :
          /\ k < store.retry_times
          /\ last.log[k].outcome = "httpx.HTTPError"
          /\ last.log[k + 1].at - last.log[k].at = store.retry_delay * k
          /\ last.slept[k] = store.retry_delay * k

\* Two failed attempts, each followed by its wait, then a response.
C29_Witness ==
    /\ last.pc = "returned" /\ last.result = "response"
    /\ Len(last.log) = 3
    /\ last.log[3].at = store.retry_delay * 3

\* All retry_times attempts were made and failed.
AllAttemptsFailed ==
    /\ last.pc = "raised"
    /\ store.retry_times > 0
    /\ Len(last.log) = store.retry_times
    /\ \A k \in 1..Len(last.log) : last.log[k].outcome = "httpx.HTTPError"

\* C30 (SpecHttp): when all attempts failed, get raises NetworkError, and
\* NetworkError, a subclass of the root error, is what fetch_kline passes on.
C30_TypedNetworkError ==
    AllAttemptsFailed
    => /\ last.result = "NetworkError"
       /\ last.result \in RQuoteErrors
       /\ last.adapter \in {"pending", "NetworkError"}


\* ================================================================
\* Price queries against a vendor whose fetch may fail: fetch_func raises
\* (the HTTP client re-raises after its last attempt), and neither
\* get_price_auto_merge nor _get_price_with_persistent_cache nor the plain
\* wrapper calls it inside a try block, so the exception ends the query.
\* The fetch that raised stays in the log without a reply.
FetchRaises ==
    /\ last.op = "query" /\ last.pc # "done"
    /\ last' = [last EXCEPT !.pc = "done"]
    /\ UNCHANGED <<store, selfTtl, now>>

\* The query ended by an exception of its last fetch.
Raised(q) ==
    /\ q.op = "query" /\ q.pc = "done"
    /\ Len(q.log) > 0 /\ ~q.log[Len(q.log)].replied

NextFail ==
    \/ \E o \in Orchs, w \in QWindows : QueryStart(o, w[1], w[2], NoPrev)
    \/ \E df \in VendorFrags : VendorReply(df)
    \/ FetchRaises

SpecFail == InitQuery /\ [][NextFail]_vars

\* C31 (SpecFail): when a forward- or backward-extension fetch fails while
\* the cached series holds rows inside [sdate, edate], the query does not
\* raise: it returns those cached rows, and the cache is as the failure
\* found it.
C31_FailureServedFromCache ==
    (/\ last.op = "query" /\ last.pc = "done" /\ Len(last.log) > 0
     /\ last.log[Len(last.log)].kind \in {"forward", "backward"}
     /\ ~last.log[Len(last.log)].replied
     /\ store[QBaseKey].present
     /\ WindowOf(CachedDf, last.sdate, last.edate) # <<>>)
    => /\ ~Raised(last)
       /\ last.res.df = WindowOf(CachedDf, last.sdate, last.edate)


\* ================================================================
\* Market._fetch_price_data of each market: what becomes of an error of the
\* adapter (DataSourceError) or of the candle parser (ParseError).
FetchMarkets == {"cn", "hk", "us", "usprobe", "fu", "bk"}

\* The parser's two ParseErrors (no data for the symbol, no time key), the
\* adapter's DataSourceError, or a parsed table.
ParseErrors == {"ParseError:no data", "ParseError:no time key"}
ParsedTables == {[kind |-> "data", df |-> Run(f, n)] : f \in 1..ProbeMaxFirst, n \in 1..ProbeMaxRows}
ParseOutcomes ==
    {[kind |-> e, df |-> <<>>] : e \in ParseErrors \cup {"DataSourceError"}} \cup ParsedTables

\* What the legacy fetch of the fallback gives: a table, DataSourceError
\* (no response), or KeyError (the payload lacks the symbol or the key).
FallbackOutcomes ==
    {[kind |-> e, df |-> <<>>] : e \in {"DataSourceError", "KeyError"}} \cup ParsedTables

ErrorClass(kind) == IF kind \in ParseErrors THEN "ParseError" ELSE kind

FetchCall(market, pc, first, res) ==
    [op |-> "fetch", market |-> market, pc |-> pc, first |-> first, res |-> res]
NoOutcome == [kind |-> "", df |-> <<>>]

\* The first fetch_kline + parse of _fetch_price_data (for a board code,
\* the body of _get_bk_price).
FetchAndParse(market, a) ==
    /\ last.pc \in {"returned", "raised"}
    /\ last' =
         IF a.kind = "data" /\ (market # "usprobe" \/ Len(a.df) >= MinCandidateRows)
         THEN FetchCall(market, "returned", a, a)
         ELSE CASE market \in {"cn", "fu"} -> FetchCall(market, "fallback", a, NoOutcome)
                [] market \in {"hk", "us"} ->
                     FetchCall(market, "raised", a, [kind |-> ErrorClass(a.kind), df |-> <<>>])
                [] market = "usprobe" -> FetchCall(market, "probe", a, NoOutcome)
                [] market = "bk" ->
                     FetchCall(market, "returned", a, [kind |-> "data", df |-> <<>>])
    /\ UNCHANGED <<store, selfTtl, now>>

\* _get_price_fallback after the except clause of the mainland and the
\* futures market.
Fallback(b) ==
    /\ last.op = "fetch" /\ last.pc = "fallback"
    /\ last' = [last EXCEPT !.pc = IF b.kind = "data" THEN "returned" ELSE "raised",
                            !.res = b]
    /\ UNCHANGED <<store, selfTtl, now>>

\* The second candidate of the US probe after the first was dropped.
ProbeSecond(a) ==
    /\ last.op = "fetch" /\ last.pc = "probe"
    /\ last' = IF a.kind = "data" /\ Len(a.df) >= MinCandidateRows
               THEN [last EXCEPT !.pc = "returned", !.res = a]
               ELSE [last EXCEPT !.pc = "raised",
                                 !.res = [kind |-> "DataSourceError", df |-> <<>>]]
    /\ UNCHANGED <<store, selfTtl, now>>

InitParse ==
    /\ store = <<>>
    /\ selfTtl = 0
    /\ now = 0
    /\ last = FetchCall("", "returned", NoOutcome, NoOutcome)

NextParse ==
    \/ \E market \in FetchMarkets, a \in ParseOutcomes : FetchAndParse(market, a)
    \/ \E b \in FallbackOutcomes : Fallback(b)
    \/ \E a \in ParseOutcomes : ProbeSecond(a)

SpecParse == InitParse /\ [][NextParse]_vars

\* C32 (SpecParse): a ParseError of the candle parser reaches the caller as
\* ParseError in every market but the board codes; no table is returned in
\* its place.
C32_ParseErrorPropagates ==
    (/\ last.pc \in {"returned", "raised"}
     /\ last.market # "bk"
     /\ last.first.kind \in ParseErrors)
    => last.pc = "raised" /\ last.res.kind = "ParseError"


\* ================================================================
\* utils.date.check_date_format on date strings, modelled as sequences of
\* characters.
DigitChars == <<"0", "1", "2", "3", "4", "5", "6", "7", "8", "9">>
IsDigit(c) == \E i \in 1..10 : DigitChars[i] = c
DigitVal(c) == (CHOOSE i \in 1..10 : DigitChars[i] = c) - 1
RECURSIVE NumOf(_)
NumOf(cs) == IF cs = <<>> THEN 0 ELSE 10 * NumOf(SubSeq(cs, 1, Len(cs) - 1)) + DigitVal(cs[Len(cs)])
AllDigits(cs) == \A i \in 1..Len(cs) : IsDigit(cs[i])

\* The calendar.
IsLeap(y) == (y % 4 = 0 /\ y % 100 # 0) \/ y % 400 = 0
DaysIn(y, m) ==
    IF m = 2 THEN (IF IsLeap(y) THEN 29 ELSE 28)
    ELSE IF m \in {4, 6, 9, 11} THEN 30 ELSE 31
ValidDate(y, m, d) == y >= 1 /\ m \in 1..12 /\ d >= 1 /\ d <= DaysIn(y, m)

\* re.match(r'^\d{4}-\d{2}-\d{2}$', date_str)
MatchesIso(s) ==
    /\ Len(s) = 10
    /\ s[5] = "-" /\ s[8] = "-"
    /\ \A i \in {1, 2, 3, 4, 6, 7, 9, 10} : IsDigit(s[i])

\* The directives of time.strptime: %Y is four digits, %m is 1[0-2], 0[1-9]
\* or [1-9], %d is 3[01], [12]\d, 0[1-9] or [1-9]; longer alternatives are
\* tried first.
MonthToken(cs) ==
    /\ Len(cs) \in {1, 2} /\ AllDigits(cs)
    /\ IF Len(cs) = 2 THEN NumOf(cs) \in 1..12 ELSE NumOf(cs) \in 1..9
DayToken(cs) ==
    /\ Len(cs) \in {1, 2} /\ AllDigits(cs)
    /\ IF Len(cs) = 2 THEN NumOf(cs) \in 1..31 ELSE NumOf(cs) \in 1..9
TokenLens == <<<<2, 2>>, <<2, 1>>, <<1, 2>>, <<1, 1>>>>

\* The split of s by the format %Y<sep>%m<sep>%d with the given token
\* lengths, if s has that shape.
SplitAs(s, sep, ml, dl) ==
    LET L == Len(sep)
    IN IF Len(s) # 4 + 2 * L + ml + dl
       THEN [ok |-> FALSE, y |-> <<>>, m |-> <<>>, d |-> <<>>]
       ELSE LET y == SubSeq(s, 1, 4)
                m == SubSeq(s, 5 + L, 4 + L + ml)
                d == SubSeq(s, 5 + 2 * L + ml, 4 + 2 * L + ml + dl)
            IN [ok |-> /\ AllDigits(y)
                       /\ SubSeq(s, 5, 4 + L) = sep
                       /\ SubSeq(s, 5 + L + ml, 4 + 2 * L + ml) = sep
                       /\ MonthToken(m) /\ DayToken(d),
                y |-> y, m |-> m, d |-> d]

NoTime == [ok |-> FALSE, y |-> 0, m |-> 0, d |-> 0]

\* time.strptime(date_str, fmt): the first split that matches, then the
\* check that the day exists (ValueError otherwise).
Strptime(s, sep) ==
    LET fits == {i \in 1..4 : SplitAs(s, sep, TokenLens[i][1], TokenLens[i][2]).ok}
    IN IF fits = {} THEN NoTime
       ELSE LET i == CHOOSE i \in fits : \A j \in fits : i <= j
                p == SplitAs(s, sep, TokenLens[i][1], TokenLens[i][2])
                t == [ok |-> TRUE, y |-> NumOf(p.y), m |-> NumOf(p.m), d |-> NumOf(p.d)]
            IN IF ValidDate(t.y, t.m, t.d) THEN t ELSE NoTime

\* Decimal digits of n in at least w places.
RECURSIVE Digits(_, _)
Digits(n, w) ==
    IF n < 10 /\ w <= 1 THEN <<DigitChars[n + 1]>>
    ELSE Digits(n \div 10, w - 1) \o <<DigitChars[(n % 10) + 1]>>

\* time.strftime("%Y-%m-%d", t): %m and %d in two digits; %Y in four
\* digits, or unpadded where the C library does not pad it.
Strftime(t, padded_year) ==
    Digits(t.y, IF padded_year THEN 4 ELSE 1) \o <<"-">> \o Digits(t.m, 2) \o <<"-">> \o Digits(t.d, 2)

\* The separators of the formats tried, in the order of the code.
FormatSeps == <<<<"/">>, <<>>, <<".">>, <<"_">>, <<"-">>>>

Accepted(str) == [ok |-> TRUE, str |-> str]
Rejected == [ok |-> FALSE, str |-> <<>>]

\* check_date_format
CheckDateFormat(date_str, padded_year) ==
    IF date_str = <<>> THEN Accepted(<<>>)
    ELSE IF MatchesIso(date_str) THEN Accepted(date_str)
    ELSE LET fits == {i \in 1..Len(FormatSeps) : Strptime(date_str, FormatSeps[i]).ok}
         IN IF fits = {} THEN Rejected
            ELSE LET i == CHOOSE i \in fits : \A j \in fits : i <= j
                 IN Accepted(Strftime(Strptime(date_str, FormatSeps[i]), padded_year))

\* The strings tried: a year, a month and a day token with any two
\* separators around the month, and possibly a trailing blank.
YearTokens == {<<"2", "0", "2", "4">>, <<"2", "0", "2", "3">>, <<"0", "9", "9", "9">>}
MonthTokens == {<<"0", "2">>, <<"1", "1">>, <<"1", "3">>, <<"1">>}
DayTokens == {<<"0", "1">>, <<"2", "9">>, <<"3", "0">>, <<"5">>}
SepTokens == {<<"-">>, <<"/">>, <<".">>, <<"_">>, <<>>}
DateInputs ==
    {y \o s1 \o m \o s2 \o d \o tail :
        y \in YearTokens, s1 \in SepTokens, m \in MonthTokens, s2 \in SepTokens,
        d \in DayTokens, tail \in {<<>>, <<" ">>}}

\* check_date_format applied to the string drawn and, when it accepts, to
\* its result.
NormalizeTwice ==
    /\ last.op = "input"
    /\ LET once == CheckDateFormat(last.x, last.padded_year)
       IN last' = [last EXCEPT !.op = "normalize", !.once = once,
                               !.twice = IF once.ok
                                         THEN CheckDateFormat(once.str, last.padded_year)
                                         ELSE once]
    /\ UNCHANGED <<store, selfTtl, now>>

InitDates ==
    /\ store = <<>>
    /\ selfTtl = 0
    /\ now = 0
    /\ \E x \in DateInputs, padded_year \in BOOLEAN :
          last = [op |-> "input", x |-> x, padded_year |-> padded_year,
                  once |-> Rejected, twice |-> Rejected]

NextDates == NormalizeTwice

SpecDates == InitDates /\ [][NextDates]_vars

\* The string is YYYY<sep>MM<sep>DD with one of the five separators used
\* twice, and names an existing day.
ListedForm(x) ==
    \E i \in 1..Len(FormatSeps) :
        LET p == SplitAs(x, FormatSeps[i], 2, 2)
        IN p.ok /\ ValidDate(NumOf(p.y), NumOf(p.m), NumOf(p.d))
IsoOf(x) ==
    LET i == CHOOSE i \in 1..Len(FormatSeps) : SplitAs(x, FormatSeps[i], 2, 2).ok
        p == SplitAs(x, FormatSeps[i], 2, 2)
    IN p.y \o <<"-">> \o p.m \o <<"-">> \o p.d

\* C33 (SpecDates): normalization is idempotent; a non-empty string is
\* accepted only if it has one of the five listed forms and names a valid
\* calendar date, and it is then mapped to the YYYY-MM-DD form of that date.
C33_DateNormalization ==
    (last.op = "normalize" /\ last.once.ok)
    => /\ last.twice = last.once
       /\ ListedForm(last.x)
       /\ last.once.str = IsoOf(last.x)


\* ================================================================
\* api.get_price_longer: l - 1 further get_price calls, each for the year
\* before the previous window, concatenated in front of the table so far.
MaxYears == 3

\* Tables a get_price call returns: increasing dates, any values.
SegmentFrames ==
    {f \in UNION {[1..n -> Dates \X {"p", "q"}] : n \in 0..MaxDate} : StrictlyIncreasing(f)}

\* DataFrame.drop_duplicates(): rows are compared by their column values,
\* the index is not looked at; the first of equal rows is kept.
RECURSIVE DropDuplicateRows(_)
DropDuplicateRows(df) ==
    IF df = <<>> THEN <<>>
    ELSE LET init == DropDuplicateRows(SubSeq(df, 1, Len(df) - 1))
             r == df[Len(df)]
         IN IF \E i \in 1..Len(init) : init[i][2] = r[2] THEN init ELSE Append(init, r)

\* A window bound of the loop: the first date of the first table, moved
\* back by a number of years.
YearsBefore(d, k) == [date |-> d, back |-> k]

Longer(pc, l, y, a, d1, segments) ==
    [op |-> "longer", pc |-> pc, l |-> l, y |-> y, a |-> a, d1 |-> d1, segments |-> segments]

\* get_price(i) and the first date of its table; a.index[0] of an empty
\* table raises IndexError.
LongerFirst(l, df) ==
    /\ last.pc \in {"start", "returned", "raised"}
    /\ last' = IF df = <<>> THEN Longer("raised", l, 1, df, YearsBefore(0, 0), <<df>>)
               ELSE Longer(IF l > 1 THEN "loop" ELSE "returned", l, 1, df,
                           YearsBefore(RowDate(df[1]), 0), <<df>>)
    /\ UNCHANGED <<store, selfTtl, now>>

\* One turn of the loop: get_price(i, d0, d1), concat in front, drop_duplicates.
LongerSegment(df) ==
    /\ last.pc = "loop"
    /\ last' = [last EXCEPT !.a = DropDuplicateRows(df \o last.a),
                            !.d1 = YearsBefore(last.d1.date, last.d1.back + 1),
                            !.y = @ + 1,
                            !.segments = Append(@, df),
                            !.pc = IF last.y + 1 < last.l THEN "loop" ELSE "returned"]
    /\ UNCHANGED <<store, selfTtl, now>>

InitLonger ==
    /\ store = <<>>
    /\ selfTtl = 0
    /\ now = 0
    /\ last = Longer("start", 1, 1, <<>>, YearsBefore(0, 0), <<>>)

NextLonger ==
    \/ \E l \in 1..MaxYears, df \in SegmentFrames : LongerFirst(l, df)
    \/ \E df \in SegmentFrames : LongerSegment(df)

SpecLonger == InitLonger /\ [][NextLonger]_vars

\* C34 (SpecLonger): in the table get_price_longer returns every date
\* occurs exactly once, and every date of every segment occurs.
C34_LongerDedupByDate ==
    last.pc = "returned"
    => /\ \A i, j \in 1..Len(last.a) : RowDate(last.a[i]) = RowDate(last.a[j]) => i = j
       /\ \A k \in 1..Len(last.segments) : DatesOf(last.segments[k]) \subseteq DatesOf(last.a)


\* C35 (SpecQuery): within one call, no forward-extension fetch follows a
\* forward-extension fetch after which the cached latest date was not
\* later than before, and a forward-extension fetch is issued only while
\* the cached latest date is earlier than the requested edate.
C35_ForwardLoopStops ==
    last.op = "query"
    => /\ \A i, j \in 1..Len(last.log) :
             (i < j /\ last.log[i].kind = "forward" /\ ~last.log[i].moved)
             => last.log[j].kind # "forward"
       /\ (Pending(last) /\ PendingFetch(last).kind = "forward")
          => /\ last.edate # EmptyDate
             /\ store[QBaseKey].present
             /\ IndexMax(CachedDf) < last.edate


\* C36 (SpecQuery): a query with an empty edate against a cached series
\* whose latest date is earlier than the vendor's latest bar (today, the
\* last day of the calendar) issues at least one forward-extension fetch
\* before it returns.
C36_CatchUpToToday ==
    (/\ last.op = "query" /\ last.pc = "done"
     /\ last.edate = EmptyDate
     /\ ~ColdAtStart(last)
     /\ IndexMax(last.pre[QBaseKey].df) < now)
    => FetchesOfKind(last.log, "forward") # {}


\* ================================================================
\* Expiry and put on a cache with a default ttl: puts, gets and the clock
\* on one base key. `dead` holds the rows the entry had when its expire_at
\* passed, `fresh` the rows put since then.
Revive(op, dead, fresh, res) == [op |-> op, dead |-> dead, fresh |-> fresh, res |-> res]
RowsOf(df) == {df[i] : i \in 1..Len(df)}
ReviveFrames == {<<Row(d, v)>> : d \in {1, 2}, v \in Vals}

RevivePut(df, ttl) ==
    /\ store' = PutStore(store, QBaseKey, Value(QSymbol, QName, df), ttl, selfTtl, now)
    /\ last' = Revive("put", last.dead, last.fresh \cup RowsOf(df), Miss)
    /\ UNCHANGED <<selfTtl, now>>

ReviveGet ==
    LET r == GetCall(store, QBaseKey, EmptyDate, EmptyDate, selfTtl, now)
    IN /\ store' = r.st
       /\ last' = Revive("get", last.dead, last.fresh, r.res)
       /\ UNCHANGED <<selfTtl, now>>

\* Time passes; the entry's expire_at may now lie in the past.
ReviveTick ==
    /\ now < MaxTime
    /\ now' = now + 1
    /\ LET rec == store[QBaseKey]
           passed == rec.present /\ rec.expire_at # NoExpire /\ now + 1 > rec.expire_at
       IN last' = IF passed
                  THEN Revive("tick", last.dead \cup RowsOf(rec.df), {}, Miss)
                  ELSE Revive("tick", last.dead, last.fresh, Miss)
    /\ UNCHANGED <<store, selfTtl>>

InitRevive ==
    /\ store = EmptyStore
    /\ selfTtl \in 1..MaxTtl
    /\ now = 0
    /\ last = Revive("init", {}, {}, Miss)

NextRevive ==
    \/ \E df \in ReviveFrames, ttl \in Ttls : RevivePut(df, ttl)
    \/ ReviveGet
    \/ ReviveTick

SpecRevive == InitRevive /\ [][NextRevive]_vars

\* C37 (SpecRevive): a get returns no row that the entry held when its
\* expire_at passed, unless that row has been put again since; a put after
\* the expiry does not bring the expired rows back.
C37_ExpiredNotRevived ==
    (last.op = "get" /\ last.res.hit)
    => (RowsOf(last.res.df) \cap last.dead) \subseteq last.fresh


\* ================================================================
\* Two instances of a file backend opened on the same path: each holds the
\* map it loaded when it was constructed and rewrites the whole file from
\* that map on every write. `written` is the record last put under each key
\* by either instance (none after a delete of the key).
FileKinds == {"jsonl", "pickle"}
Openers == {1, 2}
SharedKeys == {<<"A", "day", "qfq">>, <<"B", "day", "qfq">>}
\* Records handed to put: the one-row series without an expiry.
SharedRecs == {r \in DurableRecs : r.expire_at = NoExpire}
NothingWritten == [k \in SharedKeys |-> NoRow]
Shared(op, who, key, written) == [op |-> op, who |-> who, key |-> key, written |-> written]

\* The key order of the dict that _load builds from the file.
LoadOrder(kind, file) ==
    IF kind = "jsonl" THEN [i \in 1..Len(file) |-> file[i].key] ELSE <<>>

\* __init__ of the backend: the instance holds what the file holds now.
OpenOn(kind, file) == [data |-> KindLoad(kind, file), order |-> LoadOrder(kind, file)]

\* One write of instance `who` through `Write`: its map changes and the
\* shared file becomes what its _save wrote.
WriteBy(who, Write(_, _)) ==
    [kind \in FileKinds |->
        LET mine == store[kind].inst[who]
            after == Write(kind, Instance(mine.data, mine.order, store[kind].file))
        IN [file |-> after.file,
            inst |-> [store[kind].inst EXCEPT
                         ![who] = [data |-> after.data, order |-> after.order]]]]

SharedPut(who, key, rec) ==
    LET Write(kind, inst) == InstancePut(kind, inst, key, rec)
    IN /\ store' = WriteBy(who, Write)
       /\ last' = Shared("put", who, key, [last.written EXCEPT ![key] = rec])
       /\ UNCHANGED <<selfTtl, now>>

SharedDelete(who, key) ==
    LET Write(kind, inst) == InstanceDelete(kind, inst, key)
    IN /\ store' = WriteBy(who, Write)
       /\ last' = Shared("delete", who, key, [last.written EXCEPT ![key] = NoRow])
       /\ UNCHANGED <<selfTtl, now>>

\* The process of `who` starts again: a new instance on the same path.
SharedReopen(who) ==
    /\ store' = [kind \in FileKinds |->
                    [store[kind] EXCEPT !.inst[who] = OpenOn(kind, store[kind].file)]]
    /\ last' = Shared("open", who, NoKey, last.written)
    /\ UNCHANGED <<selfTtl, now>>

InitShared ==
    /\ store = [kind \in FileKinds |->
                   [file |-> NoFile, inst |-> [i \in Openers |-> OpenOn(kind, NoFile)]]]
    /\ selfTtl = 0
    /\ now = 0
    /\ last = Shared("init", 0, NoKey, NothingWritten)

NextShared ==
    \/ \E who \in Openers, k \in SharedKeys, r \in SharedRecs : SharedPut(who, k, r)
    \/ \E who \in Openers, k \in SharedKeys : SharedDelete(who, k)
    \/ \E who \in Openers : SharedReopen(who)

SpecShared == InitShared /\ [][NextShared]_vars

\* C38 (SpecShared): with two instances on the same jsonl or pickle path,
\* a new instance opened on the path finds, under every base key, the
\* record last put under it by either instance: no write of one instance
\* removes or reverts a record written by the other.
C38_SharedPathKeepsBoth ==
    \A kind \in FileKinds, k \in SharedKeys :
        last.written[k] # NoRow
        => KindGetRaw(kind, KindLoad(kind, store[kind].file), k)
             = KindGetRaw(kind, KindPut(kind, EmptyRows, k, last.written[k]), k)


\* ================================================================
\* Price queries against a vendor that answers every fetch with its trading
\* dates in the window of the fetch, the `days` most recent ones at most.
\* days (320 by default in the source), scaled to the calendar.
VendorDays == 2
\* The vendor's trading dates: every day of the calendar.
TradingDates == 1..MaxDate

\* The dates the vendor returns for the window (s, e) of a fetch.
VendorDates(s, e) ==
    LET in_window == {d \in TradingDates :
                         /\ s.given => s.d <= d
                         /\ e.given => d <= e.d
                         /\ d <= now}
    IN {d \in in_window : Cardinality({x \in in_window : x > d}) < VendorDays}

\* The table of those dates, in increasing order.
VendorAnswer(f) ==
    LET all == [i \in 1..MaxDate |-> Row(i, "p")]
        Sent(r) == RowDate(r) \in VendorDates(f.sdate, f.edate)
    IN SelectSeq(all, Sent)

\* The vendor answers the pending fetch.
HonestReply ==
    /\ Pending(last)
    /\ VendorReply(VendorAnswer(PendingFetch(last)))

NextGaps ==
    \/ \E o \in Orchs, w \in QWindows : QueryStart(o, w[1], w[2], NoPrev)
    \/ HonestReply

SpecGaps == InitQuery /\ [][NextGaps]_vars

\* The trading dates strictly inside the span of df that df has no row for.
InteriorGaps(df) ==
    {d \in TradingDates :
        /\ IndexMin(df) < d /\ d < IndexMax(df)
        /\ \A i \in 1..Len(df) : RowDate(df[i]) # d}

\* C39 (SpecGaps): after any sequence of price queries against such a
\* vendor, every trading date between the cached earliest and the cached
\* latest date of the base key is in the cached series.
C39_NoInteriorGap ==
    (Idle /\ store[QBaseKey].present /\ store[QBaseKey].df # <<>>)
    => InteriorGaps(store[QBaseKey].df) = {}


\* The query q found a cached series that starts after its sdate.
StartsBeforeCache(q) ==
    /\ q.sdate # EmptyDate
    /\ q.pre[QBaseKey].present
    /\ q.pre[QBaseKey].df # <<>>
    /\ q.sdate < IndexMin(q.pre[QBaseKey].df)

\* C40 (SpecQuery): a price query whose sdate is earlier than the cached
\* earliest date issues at least one fetch before it returns (a backward
\* extension, or a fetch of the whole window), however many cached rows lie
\* before edate.
C40_EarlierStartFetches ==
    (last.op = "query" /\ last.pc = "done" /\ StartsBeforeCache(last))
    => last.log # <<>>

====
